---- MODULE Spec2Model ----
(***************************************************************************)
(* Maven API Explorer: the dependency tree resolver (MavenParser), the     *)
(* archive acquisition cascade (JarAnalyzer with UserInteractionService)   *)
(* and the set_offline_mode tool, as state machines.                       *)
(***************************************************************************)
EXTENDS Integers, Sequences, FiniteSets, TLC

(***************************************************************************)
(* Bounds of the model.                                                    *)
(***************************************************************************)
NumCoords == 3
MaxDeps == 2
MaxDecls == 4
MaxIrregular == 1
NumArtifacts == 2
MaxCalls == 3
MaxClasses == 2
MaxMethods == 2
MaxParams == 2
MaxEntries == 2

(***************************************************************************)
(* Data model (models/types.ts).                                           *)
(***************************************************************************)
\* The n-th coordinate of the universe: coordinates that share groupId and
\* artifactId and differ in version only are distinct coordinates.
CoordOf(n) ==
  [groupId |-> "g",
   artifactId |-> IF n % 2 = 1 THEN "a" ELSE "b",
   version |-> (n + 1) \div 2]

Coords == {CoordOf(n) : n \in 1..NumCoords}

\* scope "compile" stands for every scope other than test and provided
\* (undefined, compile, runtime): the code only ever compares with those two.
Scopes == {"compile", "test", "provided"}

MavenDependency ==
  [groupId : {"g"}, artifactId : {"a", "b"}, version : 1..NumCoords,
   scope : Scopes, optional : BOOLEAN]

CoordinateOf(d) ==
  [groupId |-> d.groupId, artifactId |-> d.artifactId, version |-> d.version]

\* The declarations a manifest can hold: optional is only combined with the
\* default scope.
Declarations ==
  {d \in MavenDependency :
     /\ CoordinateOf(d) \in Coords
     /\ d.optional => d.scope = "compile"}

IsPlain(d) == d.scope = "compile" /\ ~d.optional

RECURSIVE SpecialCount(_)
SpecialCount(deps) ==
  IF deps = <<>> THEN 0
  ELSE (IF IsPlain(Head(deps)) THEN 0 ELSE 1) + SpecialCount(Tail(deps))

IndexOf(c) == CHOOSE n \in 1..NumCoords : CoordOf(n) = c

Max(a, b) == IF a > b THEN a ELSE b
Min(a, b) == IF a < b THEN a ELSE b

\* The highest coordinate index named by deps, or n if that is higher.
RECURSIVE NamedBy(_, _)
NamedBy(deps, n) ==
  IF deps = <<>> THEN n
  ELSE NamedBy(Tail(deps), Max(n, IndexOf(CoordinateOf(Head(deps)))))

\* The resolver only compares coordinates for equality, so coordinates are
\* interchangeable: manifests name them in order of first appearance (a
\* declaration names a coordinate already named or the next fresh one).
RECURSIVE Canonical(_, _)
Canonical(deps, n) ==
  \/ deps = <<>>
  \/ /\ IndexOf(CoordinateOf(Head(deps))) <= n + 1
     /\ Canonical(Tail(deps), Max(n, IndexOf(CoordinateOf(Head(deps)))))

\* The dependency lists of l declarations, j of them special, that are
\* canonical after n coordinates have been named.
CanonLists ==
  [l \in 0..MaxDeps, j \in 0..MaxDeps, n \in 0..NumCoords |->
     {deps \in [1..l -> Declarations] :
        SpecialCount(deps) = j /\ Canonical(deps, n)}]

(***************************************************************************)
(* The environment: the manifest of a coordinate as the local repository   *)
(* and the remote repository hold it.  where:                              *)
(*   "local"  the .pom file is in the local repository                     *)
(*   "remote" not local; the remote fetch answers ok with the manifest     *)
(*   "notok"  not local; the remote fetch answers with a non-ok status     *)
(*   "neterr" not local; the remote fetch throws                           *)
(* A manifest is revealed (known) when the resolver first looks it up and  *)
(* stays what it is from then on.                                          *)
(***************************************************************************)
Manifest(where, wellFormed, deps) ==
  [known |-> TRUE, where |-> where, wellFormed |-> wellFormed, deps |-> deps]

UnknownManifest ==
  [known |-> FALSE, where |-> "local", wellFormed |-> TRUE, deps |-> <<>>]

Irregularities(m) ==
  (IF m.where = "local" /\ m.wellFormed THEN 0 ELSE 1) + SpecialCount(m.deps)

NoCache == [present |-> FALSE, value |-> <<>>]

VARIABLES
  offlineMode,     \* JarAnalyzer.offlineMode
  netLog,          \* history: the remote fetches issued so far
  rootPom,         \* environment: the manifest file at the project's pomPath
  repo,            \* environment: the manifest of every coordinate
  rpc,             \* position of the resolveDependencyTree call
  stack,           \* the pending for-loops of resolveDependencyTree/resolveDependency
  resolvedDeps,    \* resolveDependencyTree's resolvedDeps
  processedDeps,   \* resolveDependencyTree's processedDeps
  result,          \* the list the last resolveDependencyTree call returned
  pomCache,        \* CacheService.pomCache entry of pomPath
  treeCache,       \* CacheService.dependencyTreeCache entry of pomPath
  expanded,        \* history: manifest lookups per coordinate in this call
  files,           \* environment: the archives in the local repository
  jarCache,        \* CacheService.jarCache
  call,            \* the analyzeJar call: its position and its local variables
  outcome,         \* how the last analyzeJar call ended
  offlineBy,       \* history: who set offlineMode last
  second,          \* a second analyzeJar call, of a request handled meanwhile
  cacheEnabled,    \* CacheService.cacheEnabled
  batch,           \* the analyze_project request: its loop over the dependencies
  sourceCodeCache, \* CacheService.sourceCodeCache entry of one file of an archive
  javadocCache,    \* CacheService.javadocCache entry of one class name
  persistTimeoutId,\* CacheService.persistTimeoutId is set (not null)
  timers,          \* the event loop: the flush timers that were set and not cleared
  flushes,         \* the persistCache calls under way: of the timer, of the signal
  clearing,        \* position of the clearCache call
  disk,            \* environment: the cache directory and the snapshot files in it
  proc,            \* the server process: "up" or "down"
  boot,            \* position of the constructor's initCache call
  calls,           \* history: the accessor, clearCache and signal calls made so far
  docs,            \* environment: the class's page in each coordinate's javadoc archive
  enriched,        \* classInfo.javadoc of the class, as last extracted for each coordinate
  classIndex,      \* ApiSearch.classIndex: its entries in insertion order
  results,         \* history: the last searchClasses call made on the index as it is
  methodIndex,     \* ApiSearch.methodIndex: its entries in insertion order
  methodResults,   \* history: the last searchMethods call made on the index as it is
  snapshot         \* CacheService.jarCache by key, its files, and the store loaded of them

rvars == <<rootPom, repo, rpc, stack, resolvedDeps, processedDeps, result,
           pomCache, treeCache, expanded, cacheEnabled>>
memory == <<pomCache, treeCache, jarCache, sourceCodeCache, javadocCache>>
timer == <<persistTimeoutId, timers>>
cvars == <<sourceCodeCache, javadocCache, timer, flushes, clearing, disk, proc,
           boot, calls>>
evars == <<docs, enriched, classIndex, results, methodIndex, methodResults,
           snapshot>>
rest == <<batch, cvars, evars>>
others == <<second, rest>>
avars == <<files, jarCache, call, outcome, others>>
vars == <<offlineMode, offlineBy, netLog, rvars, avars>>

RECURSIVE DeclsUpTo(_)
DeclsUpTo(n) ==
  IF n = 0 THEN Len(rootPom.deps)
  ELSE Len(repo[CoordOf(n)].deps) + DeclsUpTo(n - 1)

UsedDecls == DeclsUpTo(NumCoords)

IrregularOf(m) == IF m.known THEN Irregularities(m) ELSE 0

RECURSIVE IrregularUpTo(_)
IrregularUpTo(n) ==
  IF n = 0 THEN IrregularOf(rootPom)
  ELSE IrregularOf(repo[CoordOf(n)]) + IrregularUpTo(n - 1)

UsedIrregular == IrregularUpTo(NumCoords)

RECURSIVE NamedUpTo(_)
NamedUpTo(n) ==
  IF n = 0 THEN NamedBy(rootPom.deps, 0)
  ELSE NamedBy(repo[CoordOf(n)].deps, NamedUpTo(n - 1))

Named == NamedUpTo(NumCoords)

\* The dependency lists a manifest revealed now may hold, when the manifest
\* itself already counts for `own` irregularities.
RevealableDeps(own) ==
  UNION {CanonLists[l, j, Named] :
           l \in 0..Min(MaxDeps, MaxDecls - UsedDecls),
           j \in 0..Min(MaxDeps, MaxIrregular - UsedIrregular - own)}

CanReveal(own) == UsedIrregular + own <= MaxIrregular

(***************************************************************************)
(* MavenParser                                                             *)
(***************************************************************************)
\* depKey = `${groupId}:${artifactId}:${version}`
DepKey(d) == <<d.groupId, d.artifactId, d.version>>

MaxDepth == NumCoords + 1

Frame(deps, isRoot) == [deps |-> deps, i |-> 1, root |-> isRoot]

Top == stack[Len(stack)]
Current == Top.deps[Top.i]

\* A resolveDependency call whose for-loop is exhausted returns to the loop
\* that awaits it; the for-loop of resolveDependencyTree stays for its end.
RECURSIVE Unwind(_)
Unwind(s) ==
  IF Len(s) > 1 /\ s[Len(s)].i > Len(s[Len(s)].deps)
  THEN Unwind(SubSeq(s, 1, Len(s) - 1))
  ELSE s

\* the loop on top moves to its next declaration
Advance == [stack EXCEPT ![Len(stack)].i = @ + 1]

Fetch(what, c) == [what |-> what, coord |-> c, offline |-> offlineMode]

\* cacheDependencyTree and cachePom do nothing once initCache has failed
Cached(value) == [present |-> TRUE, value |-> value]

CacheDependencyTree(deps) == IF cacheEnabled THEN Cached(deps) ELSE treeCache

CachePom(deps) == IF cacheEnabled THEN Cached(deps) ELSE pomCache

\* getCachedDependencyTree(pomPath) returns a list
CachedDependenciesNever == FALSE
CachedDependencies == treeCache.present

\* resolveDependencyTree, cache hit: the call looks no manifest up
ResolveCached ==
  /\ rpc \in {"idle", "done", "failed"}
  /\ CachedDependencies
  /\ result' = treeCache.value
  /\ rpc' = "done"
  /\ expanded' = [c \in Coords |-> 0]
  /\ UNCHANGED <<avars, cacheEnabled, offlineBy, offlineMode, netLog, rootPom, repo, stack, resolvedDeps,
                 processedDeps, pomCache, treeCache>>

\* parsePom(pomPath) as called by resolveDependencyTree: the project's
\* dependencies, or <<FALSE, ..>> when reading or parsing the file throws
ParsePomBegin(m) ==
  /\ rootPom' = IF pomCache.present THEN rootPom ELSE m
  /\ LET parsed == pomCache.present \/ m.wellFormed
         deps == IF pomCache.present THEN pomCache.value ELSE m.deps
     IN /\ rpc' = IF parsed THEN "running" ELSE "failed"
        /\ pomCache' = IF parsed /\ ~pomCache.present THEN CachePom(deps)
                       ELSE pomCache
        /\ stack' = IF parsed THEN <<Frame(deps, TRUE)>> ELSE <<>>
  /\ resolvedDeps' = <<>>
  /\ processedDeps' = {}
  /\ expanded' = [c \in Coords |-> 0]
  /\ result' = <<>>
  /\ UNCHANGED <<avars, cacheEnabled, offlineBy, offlineMode, netLog, repo, treeCache>>

\* resolveDependencyTree up to the first resolveDependency
ResolveBegin ==
  /\ rpc \in {"idle", "done", "failed"}
  /\ ~CachedDependencies
  /\ IF rootPom.known
     THEN ParsePomBegin(rootPom)
     ELSE \/ \E deps \in RevealableDeps(0) : ParsePomBegin(Manifest("local", TRUE, deps))
          \/ CanReveal(1) /\ ParsePomBegin(Manifest("local", FALSE, <<>>))

InLoop == rpc = "running" /\ stack # <<>> /\ Top.i <= Len(Top.deps)

\* the for-loop of resolveDependency skips a provided/test declaration
SkipScoped ==
  /\ InLoop
  /\ ~Top.root
  /\ Current.scope \in {"provided", "test"}
  /\ stack' = Unwind(Advance)
  /\ UNCHANGED <<avars, cacheEnabled, offlineBy, offlineMode, netLog, rootPom, repo, rpc, resolvedDeps,
                 processedDeps, result, pomCache, treeCache, expanded>>

CalledWhateverScope == InLoop

Called == InLoop /\ (Top.root \/ Current.scope \notin {"provided", "test"})

GuardedOptionalOnly(d) == d.optional

Guarded(d) == DepKey(d) \in processedDeps \/ d.optional

\* resolveDependency returns at once: already processed, or optional
SkipMarkingProcessed ==
  /\ Called
  /\ Guarded(Current)
  /\ stack' = Unwind(Advance)
  /\ processedDeps' = processedDeps \cup {DepKey(Current)}
  /\ UNCHANGED <<avars, cacheEnabled, offlineBy, offlineMode, netLog, rootPom, repo, rpc, resolvedDeps,
                 result, pomCache, treeCache, expanded>>

SkipProcessedOrOptional ==
  /\ Called
  /\ Guarded(Current)
  /\ stack' = Unwind(Advance)
  /\ UNCHANGED <<avars, cacheEnabled, offlineBy, offlineMode, netLog, rootPom, repo, rpc, resolvedDeps,
                 processedDeps, result, pomCache, treeCache, expanded>>

\* resolvedDeps.push(dependency)
PushFront(deps, d) == <<d>> \o deps
Push(deps, d) == Append(deps, d)

\* resolveDependency returns without recursing (the non-ok answer, the catch
\* block): the loop that awaits it goes on with the next declaration
ReturnsPastSiblings == <<[stack[1] EXCEPT !.i = Len(stack[1].deps) + 1]>>
Returns == Unwind(Advance)

\* resolveDependency appends the dependency and looks its manifest up; the
\* lookup ends in outcome m (the manifest as the environment holds it) and,
\* for a fetched manifest, saved tells whether saveToLocalRepo could write.
ExpandOnceParsed(m, saved) ==
  LET d == Current
      c == CoordinateOf(d)
      fetched == m.where # "local"
      parsed == m.where \in {"local", "remote"} /\ m.wellFormed
  IN /\ processedDeps' = IF parsed THEN processedDeps \cup {DepKey(d)}
                         ELSE processedDeps
     /\ resolvedDeps' = IF parsed THEN Push(resolvedDeps, d) ELSE resolvedDeps
     /\ expanded' = [expanded EXCEPT ![c] = @ + 1]
     /\ netLog' = IF fetched THEN netLog \cup {Fetch("pom", c)} ELSE netLog
     /\ repo' = [repo EXCEPT ![c] =
                   IF m.where = "remote" /\ saved
                   THEN [m EXCEPT !.where = "local"] ELSE m]
     /\ stack' = IF parsed
                 THEN Unwind(Append(Advance, Frame(m.deps, FALSE)))
                 ELSE Returns
     /\ UNCHANGED <<avars, cacheEnabled, offlineBy, offlineMode, rootPom, rpc, result, pomCache, treeCache>>

Expand(m, saved) ==
  LET d == Current
      c == CoordinateOf(d)
      fetched == m.where # "local"
      parsed == m.where \in {"local", "remote"} /\ m.wellFormed
  IN /\ processedDeps' = processedDeps \cup {DepKey(d)}
     /\ resolvedDeps' = Push(resolvedDeps, d)
     /\ expanded' = [expanded EXCEPT ![c] = @ + 1]
     /\ netLog' = IF fetched THEN netLog \cup {Fetch("pom", c)} ELSE netLog
     /\ repo' = [repo EXCEPT ![c] =
                   IF m.where = "remote" /\ saved
                   THEN [m EXCEPT !.where = "local"] ELSE m]
     /\ stack' = IF parsed
                 THEN Unwind(Append(Advance, Frame(m.deps, FALSE)))
                 ELSE Returns
     /\ UNCHANGED <<avars, cacheEnabled, offlineBy, offlineMode, rootPom, rpc, result, pomCache, treeCache>>

Expanding == Called /\ ~Guarded(Current) /\ Len(stack) < MaxDepth

Here == repo[CoordinateOf(Current)]

\* the manifest is read from the local repository and parsed
ExpandLocal ==
  /\ Expanding
  /\ IF Here.known
     THEN Here.where = "local" /\ Here.wellFormed /\ Expand(Here, FALSE)
     ELSE \E deps \in RevealableDeps(0) : Expand(Manifest("local", TRUE, deps), FALSE)

\* the manifest is fetched, saved (or not) and parsed
ExpandFetched ==
  /\ Expanding
  /\ \E saved \in BOOLEAN :
       IF Here.known
       THEN Here.where = "remote" /\ Here.wellFormed /\ Expand(Here, saved)
       ELSE \E deps \in RevealableDeps(1) : Expand(Manifest("remote", TRUE, deps), saved)

\* the fetch answers with a non-ok status: resolveDependency returns
ExpandFetchNotOk ==
  /\ Expanding
  /\ IF Here.known
     THEN Here.where = "notok" /\ Expand(Here, FALSE)
     ELSE CanReveal(1) /\ Expand(Manifest("notok", TRUE, <<>>), FALSE)

\* the fetch throws: caught and logged by resolveDependency
ExpandFetchThrows ==
  /\ Expanding
  /\ IF Here.known
     THEN Here.where = "neterr" /\ Expand(Here, FALSE)
     ELSE CanReveal(1) /\ Expand(Manifest("neterr", TRUE, <<>>), FALSE)

\* parsePomContent throws on the local file: caught and logged
ExpandParseFailsLocal ==
  /\ Expanding
  /\ IF Here.known
     THEN Here.where = "local" /\ ~Here.wellFormed /\ Expand(Here, FALSE)
     ELSE CanReveal(1) /\ Expand(Manifest("local", FALSE, <<>>), FALSE)

\* parsePomContent throws on the fetched and saved (or not) text
ExpandParseFailsFetched ==
  /\ Expanding
  /\ \E saved \in BOOLEAN :
       IF Here.known
       THEN Here.where = "remote" /\ ~Here.wellFormed /\ Expand(Here, saved)
       ELSE CanReveal(1) /\ Expand(Manifest("remote", FALSE, <<>>), saved)

\* the for-loop of resolveDependencyTree is exhausted: cache and return
ResolveFinish ==
  /\ rpc = "running"
  /\ Len(stack) = 1
  /\ Top.i > Len(Top.deps)
  /\ stack' = <<>>
  /\ treeCache' = CacheDependencyTree(resolvedDeps)
  /\ result' = resolvedDeps
  /\ rpc' = "done"
  /\ UNCHANGED <<avars, cacheEnabled, offlineBy, offlineMode, netLog, rootPom, repo, resolvedDeps,
                 processedDeps, pomCache, expanded>>

(***************************************************************************)
(* set_offline_mode tool / JarAnalyzer.setOfflineMode                      *)
(***************************************************************************)
SetOfflineMode(offline) ==
  /\ offlineMode' = offline
  /\ offlineBy' = "tool"
  /\ UNCHANGED <<netLog, rvars, avars>>

SetOfflineModeTool == \E offline \in BOOLEAN : SetOfflineMode(offline)

(***************************************************************************)
(* JarAnalyzer.analyzeJar with UserInteractionService and the jar cache.   *)
(* One call is in flight at a time; it is cut at its awaits, so that the   *)
(* set_offline_mode tool can run between any two of its steps.             *)
(***************************************************************************)
Artifacts == {CoordOf(n) : n \in 1..NumArtifacts}

ArchiveTypes == {"main", "sources"}

\* what promptForMissingDependency makes of the operator's line
MenuLines == {"1", "2", "3", "4", "5", "other"}

DownloadOption(line) ==
  CASE line = "1" -> "sources"
    [] line = "2" -> "main"
    [] line = "3" -> "both"
    [] line = "4" -> "skip"
    [] line = "5" -> "OFFLINE_MODE"
    [] OTHER -> "sources"

NoFiles == [main |-> FALSE, sources |-> FALSE, javadoc |-> FALSE]

NoAnalysis == [present |-> FALSE, mode |-> "none"]

IdleCall ==
  [pc |-> "idle", dependency |-> CoordOf(1), mainJarExists |-> FALSE,
   sourcesJarExists |-> FALSE, useSourcesJar |-> FALSE, type |-> "none",
   queue |-> <<>>, context |-> "none", trace |-> <<>>, lines |-> {}]

NoOutcome == [how |-> "none", mode |-> "none"]

IdleSecond == [pc |-> "idle", dependency |-> CoordOf(1)]

IdleBatch ==
  [pc |-> "idle", dependencies |-> <<>>, i |-> 1, processedCount |-> 0,
   invoked |-> <<>>, indexed |-> {}]

(***************************************************************************)
(* CacheService (services/user-interaction.ts): the values it stores, the  *)
(* snapshot files of its cache directory and its persistCache calls.       *)
(***************************************************************************)
\* The dependency lists that are written to the manifest and resolved-set
\* stores, the analyses written to the archive store and the texts written
\* to the source-text and documentation stores.
Listings ==
  {<<>>, <<[groupId |-> "g", artifactId |-> "a", version |-> 1,
            scope |-> "compile", optional |-> FALSE]>>}

Analyses == {[present |-> TRUE, mode |-> "primary"]}

Texts == {"text"}

NoText == [present |-> FALSE, value |-> ""]

\* A file of the cache directory: absent ("none"), not parsable as JSON
\* ("corrupt") or the JSON of content ("good").
NoFile(content) == [state |-> "none", content |-> content]

Good(content) == [state |-> "good", content |-> content]

NoDirectory ==
  [dir |-> FALSE, pom |-> NoFile(NoCache), tree |-> NoFile(NoCache),
   jar |-> [d \in Artifacts |-> NoFile(NoAnalysis)], index |-> NoFile({})]

EmptyDirectory == [NoDirectory EXCEPT !.dir = TRUE]

\* persistCache is called by the flush timer and by the signal handlers.
Flushers == {"timer", "signal"}

\* A persistCache call: the operation it awaits (pc) and the content it
\* passed to the writeFile call it awaits.  History: the calls that were
\* made when it began (since), and whether no load, no clearCache call and
\* no other persistCache call was under way then (alone).
IdleFlush ==
  [pc |-> "idle", pom |-> NoCache, tree |-> NoCache,
   jar |-> [d \in Artifacts |-> NoAnalysis], index |-> {},
   since |-> 0, alone |-> TRUE]

\* The archive store with its keys as the strings they are: the entries of
\* jarCache, the files of the jar-cache directory by name, the entries of
\* jar-cache-index.json, and the jarCache of the CacheService constructed
\* after the flush.
NoSnapshot ==
  [pc |-> "caching", jarCache |-> <<>>, files |-> <<>>, jarCacheIndex |-> <<>>,
   loaded |-> <<>>]

\* The documentation page of a class in a javadoc archive: its class
\* description block, if it has one.
Descriptions == {"text", "another text", "a third text"}

NoPage == [block |-> FALSE, text |-> ""]

Pages == {NoPage} \cup {[block |-> TRUE, text |-> t] : t \in Descriptions}

NotEnriched == [done |-> FALSE, javadoc |-> NoText]

\* A constructed ApiSearch.
NoResults == [done |-> FALSE, query |-> <<>>, classes |-> <<>>]

NoMethodResults == [done |-> FALSE, query |-> <<>>, methods |-> <<>>]

NothingIndexed ==
  /\ classIndex = <<>>
  /\ results = NoResults
  /\ methodIndex = <<>>
  /\ methodResults = NoMethodResults

\* A constructed CacheService with nothing under way, on an empty directory.
CacheServiceReady ==
  /\ sourceCodeCache = NoText
  /\ javadocCache = NoText
  /\ persistTimeoutId = FALSE
  /\ timers = 0
  /\ flushes = [f \in Flushers |-> IdleFlush]
  /\ clearing = "idle"
  /\ disk = EmptyDirectory
  /\ proc = "up"
  /\ boot = "done"
  /\ calls = 0
  /\ enriched = [d \in Artifacts |-> NotEnriched]
  /\ snapshot = NoSnapshot

Event(kind, what) == <<kind, what>>

Did(c, events) == [c EXCEPT !.trace = @ \o events]

\* a line of text the call calls: console.log calls to stdout,
\* console.error, console.warn and the readline interface to stderr
Log(c, channel, text) == [c EXCEPT !.lines = @ \cup {<<channel, text>>}]

\* the call returns or throws; what it held stays, for inspection
Ended(c) == [c EXCEPT !.pc = "idle", !.queue = <<>>]

Throw(c, how) ==
  /\ call' = Ended(c)
  /\ outcome' = [how |-> how, mode |-> "none"]

ModeOf(c) == IF c.useSourcesJar THEN "sources" ELSE "primary"

\* analyzeJar after jarBuffer is read: ensureSourcesJar or ensureJavadocJar
Enrich(c) ==
  [c EXCEPT !.pc = IF ~c.useSourcesJar /\ ~c.sourcesJarExists
                   THEN "ensureSources" ELSE "ensureJavadoc"]

\* getCachedJarAnalysis(dependency) returns a class list
CachedClassesNever(d) == FALSE
CachedClasses(d) == jarCache[d].present

\* analyzeJar(d) is called and returns the cached classes
AnalyzeJarCached(d) ==
  /\ call.pc = "idle"
  /\ CachedClasses(d)
  /\ call' = Log([IdleCall EXCEPT !.dependency = d],
                  "stdout", "Using cached JAR analysis")
  /\ outcome' = [how |-> "cached", mode |-> jarCache[d].mode]
  /\ UNCHANGED <<offlineMode, offlineBy, netLog, rvars, second, files, jarCache>>

\* analyzeJar(d) is called and looks for the archives of d
AnalyzeJarProbe(d) ==
  /\ call.pc = "idle"
  /\ ~CachedClasses(d)
  /\ call' = [IdleCall EXCEPT !.pc = "probed", !.dependency = d,
                              !.mainJarExists = files[d].main,
                              !.sourcesJarExists = files[d].sources]
  /\ outcome' = NoOutcome
  /\ UNCHANGED <<offlineMode, offlineBy, netLog, rvars, second, files, jarCache>>

\* the analyze_jar tool
AnalyzeCached == \E d \in Artifacts : AnalyzeJarCached(d) /\ UNCHANGED rest

AnalyzeProbe == \E d \in Artifacts : AnalyzeJarProbe(d) /\ UNCHANGED rest

UseLocalMain ==
  /\ call.pc = "probed"
  /\ call.mainJarExists
  /\ call' = Enrich(Log(Did(call, <<Event("read", "main")>>),
                           "stdout", "Using local main JAR"))
  /\ UNCHANGED <<offlineMode, offlineBy, netLog, rvars, others, files, jarCache, outcome>>

UseLocalSources ==
  /\ call.pc = "probed"
  /\ ~call.mainJarExists
  /\ call.sourcesJarExists
  /\ call' = Enrich(Log([Did(call, <<Event("read", "sources")>>)
                            EXCEPT !.useSourcesJar = TRUE],
                           "stdout", "Using local sources JAR"))
  /\ UNCHANGED <<offlineMode, offlineBy, netLog, rvars, others, files, jarCache, outcome>>

SourcesNotLocal == call.pc = "probed" /\ ~call.sourcesJarExists
NeitherLocal == call.pc = "probed" /\ ~call.mainJarExists /\ ~call.sourcesJarExists

OfflineCheckSkipped == FALSE
OfflineCheck == offlineMode

OfflineBlocked ==
  /\ NeitherLocal
  /\ OfflineCheck
  /\ Throw(call, "offline")
  /\ UNCHANGED <<offlineMode, offlineBy, netLog, rvars, others, files, jarCache>>

PromptForMissingDependency ==
  /\ NeitherLocal
  /\ ~OfflineCheck
  /\ call' = Log([Did(call, <<Event("ask", "menu")>>) EXCEPT !.pc = "menu"],
                  "stderr", "What would you like to do?")
  /\ UNCHANGED <<offlineMode, offlineBy, netLog, rvars, others, files, jarCache, outcome>>

AtMenu == call.pc = "menu"

MenuSkipEntersOffline ==
  /\ AtMenu
  /\ offlineMode' = TRUE
  /\ Throw(Did(call, <<Event("answer", DownloadOption("4"))>>), "skipped")
  /\ UNCHANGED <<offlineBy, netLog, rvars, others, files, jarCache>>
MenuSkip ==
  /\ AtMenu
  /\ Throw(Did(call, <<Event("answer", DownloadOption("4"))>>), "skipped")
  /\ UNCHANGED <<offlineMode, offlineBy, netLog, rvars, others, files, jarCache>>

MenuOfflineFlagUnset ==
  /\ AtMenu
  /\ Throw(Did(call, <<Event("answer", DownloadOption("5"))>>), "entered-offline")
  /\ UNCHANGED <<offlineMode, offlineBy, netLog, rvars, others, files, jarCache>>
MenuOffline ==
  /\ AtMenu
  /\ offlineMode' = TRUE
  /\ offlineBy' = "menu"
  /\ Throw(Did(call, <<Event("answer", DownloadOption("5"))>>), "entered-offline")
  /\ UNCHANGED <<netLog, rvars, others, files, jarCache>>

\* downloadDependency's calls of downloadWithConfirmation, in order
DownloadsMainFirst(type) == IF type = "both" THEN <<"main", "sources">> ELSE <<type>>
Downloads(type) == IF type = "both" THEN <<"sources", "main">> ELSE <<type>>

\* downloadWithConfirmation asks before anything else
AskConfirmation(c) ==
  Log([Did(c, <<Event("ask", Head(c.queue))>>) EXCEPT !.pc = "confirm"],
      "stderr", "About to download")

MenuDownload ==
  \E line \in MenuLines :
    /\ AtMenu
    /\ DownloadOption(line) \in {"sources", "main", "both"}
    /\ call' = AskConfirmation(
                 [Did(call, <<Event("answer", DownloadOption(line))>>)
                    EXCEPT !.type = DownloadOption(line),
                           !.queue = Downloads(DownloadOption(line)),
                           !.context = "downloadDependency"])
    /\ UNCHANGED <<offlineMode, offlineBy, netLog, rvars, others, files, jarCache, outcome>>

AtConfirm(context) == call.pc = "confirm" /\ call.context = context

ConfirmDeclinedContinues ==
  /\ AtConfirm("downloadDependency")
  /\ Len(call.queue) > 1
  /\ call' = AskConfirmation([Did(call, <<Event("answer", "no")>>) EXCEPT !.queue = Tail(@)])
  /\ UNCHANGED <<offlineMode, offlineBy, netLog, rvars, others, files, jarCache, outcome>>
ConfirmDeclined ==
  /\ AtConfirm("downloadDependency")
  /\ Throw(Did(call, <<Event("answer", "no")>>), "declined")
  /\ UNCHANGED <<offlineMode, offlineBy, netLog, rvars, others, files, jarCache>>

ConfirmDeclinedEnsuring ==
  /\ AtConfirm("ensureSourcesJar")
  /\ call' = [Did(call, <<Event("answer", "no")>>)
                EXCEPT !.pc = "ensureJavadoc", !.queue = <<>>]
  /\ UNCHANGED <<offlineMode, offlineBy, netLog, rvars, others, files, jarCache, outcome>>

\* a fetch issued by analyzeJar, with what offlineMode is at that moment
Fetching(what) == Event(IF offlineMode THEN "fetch offline" ELSE "fetch", what)

Confirmed ==
  /\ call.pc = "confirm"
  /\ call' = [Did(call, <<Event("answer", "yes"), Fetching(Head(call.queue))>>)
                EXCEPT !.pc = "fetching"]
  /\ UNCHANGED <<offlineMode, offlineBy, netLog, rvars, others, files, jarCache, outcome>>

AtFetching(context) == call.pc = "fetching" /\ call.context = context

\* the response is not ok, or fetch rejects: downloadMainJar/downloadSourcesJar throws
FetchFails ==
  /\ AtFetching("downloadDependency")
  /\ Throw(Did(call, <<Event("failed", Head(call.queue))>>), "fetch-failed")
  /\ UNCHANGED <<offlineMode, offlineBy, netLog, rvars, others, files, jarCache>>

FetchFailsEnsuringThrows ==
  /\ AtFetching("ensureSourcesJar")
  /\ Throw(Did(call, <<Event("failed", Head(call.queue))>>), "fetch-failed")
  /\ UNCHANGED <<offlineMode, offlineBy, netLog, rvars, others, files, jarCache>>
FetchFailsEnsuring ==
  /\ AtFetching("ensureSourcesJar")
  /\ call' = [Did(call, <<Event("failed", Head(call.queue))>>)
                EXCEPT !.pc = "ensureJavadoc", !.queue = <<>>]
  /\ UNCHANGED <<offlineMode, offlineBy, netLog, rvars, others, files, jarCache, outcome>>

\* the archive downloadDependency reads once its downloads are made
ReadAfterMainOnly(type) == "main"
ReadAfter(type) == IF type = "main" THEN "main" ELSE "sources"

SavedNowhere(fs, d, what) == fs
Saved(fs, d, what) == [fs EXCEPT ![d][what] = TRUE]

Wrote(c, saved) ==
  [Did(c, IF saved THEN <<Event("write", Head(c.queue))>> ELSE <<>>)
     EXCEPT !.queue = Tail(@)]

\* a download is made, under the choice 'both' the first of two
FetchedMore ==
  \E saved \in BOOLEAN :
    /\ call.pc = "fetching"
    /\ Len(call.queue) > 1
    /\ files' = IF saved THEN Saved(files, call.dependency, Head(call.queue)) ELSE files
    /\ call' = AskConfirmation(Wrote(call, saved))
    /\ UNCHANGED <<offlineMode, offlineBy, netLog, rvars, others, jarCache, outcome>>

\* downloadDependency's last download is made and it reads the archive
FetchedLast ==
  \E saved \in BOOLEAN :
    /\ AtFetching("downloadDependency")
    /\ Len(call.queue) = 1
    /\ files' = IF saved THEN Saved(files, call.dependency, Head(call.queue)) ELSE files
    /\ files'[call.dependency][ReadAfter(call.type)]
    /\ call' = Enrich([Did(Wrote(call, saved), <<Event("read", ReadAfter(call.type))>>)
                         EXCEPT !.useSourcesJar = (ReadAfter(call.type) = "sources")])
    /\ UNCHANGED <<offlineMode, offlineBy, netLog, rvars, others, jarCache, outcome>>

\* ... but the archive was not saved, and fs.readFile throws
FetchedLastUnreadable ==
  \E saved \in BOOLEAN :
    /\ AtFetching("downloadDependency")
    /\ Len(call.queue) = 1
    /\ files' = IF saved THEN Saved(files, call.dependency, Head(call.queue)) ELSE files
    /\ ~files'[call.dependency][ReadAfter(call.type)]
    /\ Throw(Wrote(call, saved), "read-failed")
    /\ UNCHANGED <<offlineMode, offlineBy, netLog, rvars, others, jarCache>>

FetchedEnsuring ==
  \E saved \in BOOLEAN :
    /\ AtFetching("ensureSourcesJar")
    /\ files' = IF saved THEN Saved(files, call.dependency, Head(call.queue)) ELSE files
    /\ call' = [Wrote(call, saved) EXCEPT !.pc = "ensureJavadoc"]
    /\ UNCHANGED <<offlineMode, offlineBy, netLog, rvars, others, jarCache, outcome>>

AtEnsureSources == call.pc = "ensureSources"

SourcesWanted == ~files[call.dependency].sources /\ ~offlineMode

EnsureSourcesJarAsks ==
  /\ AtEnsureSources
  /\ SourcesWanted
  /\ call' = Log([Did(call, <<Event("ask", "limited")>>) EXCEPT !.pc = "limited"],
                  "stderr", "Limited information available")
  /\ UNCHANGED <<offlineMode, offlineBy, netLog, rvars, others, files, jarCache, outcome>>

EnsureSourcesJarPasses ==
  /\ AtEnsureSources
  /\ ~SourcesWanted
  /\ call' = [call EXCEPT !.pc = "ensureJavadoc"]
  /\ UNCHANGED <<offlineMode, offlineBy, netLog, rvars, others, files, jarCache, outcome>>

\* promptForLimitedAnalysis answered with y: shouldDownload
LimitedAnalysisYes ==
  /\ call.pc = "limited"
  /\ call' = AskConfirmation(
               [Did(call, <<Event("answer", "yes")>>)
                  EXCEPT !.queue = <<"sources">>, !.context = "ensureSourcesJar"])
  /\ UNCHANGED <<offlineMode, offlineBy, netLog, rvars, others, files, jarCache, outcome>>

LimitedAnalysisNo ==
  /\ call.pc = "limited"
  /\ call' = [Did(call, <<Event("answer", "no")>>) EXCEPT !.pc = "ensureJavadoc"]
  /\ UNCHANGED <<offlineMode, offlineBy, netLog, rvars, others, files, jarCache, outcome>>

AtEnsureJavadoc == call.pc = "ensureJavadoc"

JavadocWanted == ~files[call.dependency].javadoc /\ ~offlineMode

\* ensureJavadocJar calls fetchJavadocJar, which asks nobody
FetchJavadocJar ==
  /\ AtEnsureJavadoc
  /\ JavadocWanted
  /\ call' = [Did(call, <<Fetching("javadoc")>>) EXCEPT !.pc = "fetchingJavadoc"]
  /\ UNCHANGED <<offlineMode, offlineBy, netLog, rvars, others, files, jarCache, outcome>>

EnsureJavadocJarPasses ==
  /\ AtEnsureJavadoc
  /\ ~JavadocWanted
  /\ call' = [call EXCEPT !.pc = "parse"]
  /\ UNCHANGED <<offlineMode, offlineBy, netLog, rvars, others, files, jarCache, outcome>>

JavadocFetched ==
  \E saved \in BOOLEAN :
    /\ call.pc = "fetchingJavadoc"
    /\ files' = IF saved THEN Saved(files, call.dependency, "javadoc") ELSE files
    /\ call' = [Did(call, IF saved THEN <<Event("write", "javadoc")>> ELSE <<>>)
                  EXCEPT !.pc = "parse"]
    /\ UNCHANGED <<offlineMode, offlineBy, netLog, rvars, others, jarCache, outcome>>

JavadocFetchFails ==
  /\ call.pc = "fetchingJavadoc"
  /\ call' = [Did(call, <<Event("failed", "javadoc")>>) EXCEPT !.pc = "parse"]
  /\ UNCHANGED <<offlineMode, offlineBy, netLog, rvars, others, files, jarCache, outcome>>

\* parseJarFile returns and analyzeJar caches and returns the classes
ParseJarFile ==
  /\ call.pc = "parse"
  /\ call' = Ended(Did(call, <<Event("parse", ModeOf(call))>>))
  /\ jarCache' = IF cacheEnabled
                  THEN [jarCache EXCEPT ![call.dependency] =
                          [present |-> TRUE, mode |-> ModeOf(call)]]
                  ELSE jarCache
  /\ outcome' = [how |-> "resolved", mode |-> ModeOf(call)]
  /\ UNCHANGED <<offlineMode, offlineBy, netLog, rvars, others, files>>

\* JSZip.loadAsync rejects the buffer
ParseJarFileThrowsCaching ==
  /\ call.pc = "parse"
  /\ call' = Ended(call)
  /\ outcome' = [how |-> "parse-failed", mode |-> "none"]
  /\ jarCache' = [jarCache EXCEPT ![call.dependency] =
                    [present |-> TRUE, mode |-> ModeOf(call)]]
  /\ UNCHANGED <<offlineMode, offlineBy, netLog, rvars, others, files>>

ParseJarFileThrows ==
  /\ call.pc = "parse"
  /\ Throw(call, "parse-failed")
  /\ UNCHANGED <<offlineMode, offlineBy, netLog, rvars, others, files, jarCache>>

(***************************************************************************)
(* clear_cache tool / CacheService.clearCache: the in-memory stores        *)
(***************************************************************************)
ClearCache ==
  /\ pomCache' = NoCache
  /\ treeCache' = NoCache
  /\ jarCache' = [d \in Artifacts |-> NoAnalysis]
  /\ sourceCodeCache' = NoText
  /\ javadocCache' = NoText
  /\ UNCHANGED <<offlineMode, offlineBy, netLog, rootPom, repo, rpc, stack,
                 resolvedDeps, processedDeps, result, expanded, files, call, outcome,
                 second, batch, evars, timer, flushes, clearing, disk, proc, boot,
                 calls, cacheEnabled>>

(***************************************************************************)
(* The analyzer, with the set_offline_mode and clear_cache tools beside    *)
(* it.                                                                     *)
(***************************************************************************)
InitAcquirer ==
  /\ offlineMode = FALSE
  /\ offlineBy = "nobody"
  /\ netLog = {}
  /\ rootPom = UnknownManifest
  /\ repo = [c \in Coords |-> UnknownManifest]
  /\ rpc = "idle"
  /\ stack = <<>>
  /\ resolvedDeps = <<>>
  /\ processedDeps = {}
  /\ result = <<>>
  /\ pomCache = NoCache
  /\ treeCache = NoCache
  /\ expanded = [c \in Coords |-> 0]
  /\ files \in [Artifacts -> [main : BOOLEAN, sources : BOOLEAN, javadoc : BOOLEAN]]
  /\ jarCache = [d \in Artifacts |-> NoAnalysis]
  /\ call = IdleCall
  /\ outcome = NoOutcome
  /\ second = IdleSecond
  /\ batch = IdleBatch
  /\ CacheServiceReady
  /\ docs = [d \in Artifacts |-> NoPage]
  /\ NothingIndexed
  /\ cacheEnabled = TRUE

NextAcquirer ==
  \/ AnalyzeCached
  \/ AnalyzeProbe
  \/ UseLocalMain
  \/ UseLocalSources
  \/ OfflineBlocked
  \/ PromptForMissingDependency
  \/ MenuSkip
  \/ MenuOffline
  \/ MenuDownload
  \/ ConfirmDeclined
  \/ ConfirmDeclinedEnsuring
  \/ Confirmed
  \/ FetchFails
  \/ FetchFailsEnsuring
  \/ FetchedMore
  \/ FetchedLast
  \/ FetchedLastUnreadable
  \/ FetchedEnsuring
  \/ EnsureSourcesJarAsks
  \/ EnsureSourcesJarPasses
  \/ LimitedAnalysisYes
  \/ LimitedAnalysisNo
  \/ FetchJavadocJar
  \/ EnsureJavadocJarPasses
  \/ JavadocFetched
  \/ JavadocFetchFails
  \/ ParseJarFile
  \/ ParseJarFileThrows
  \/ SetOfflineModeTool
  \/ ClearCache

SpecAcquirer == InitAcquirer /\ [][NextAcquirer]_vars

(***************************************************************************)
(* Two tool requests handled at once: the server starts the handler of a   *)
(* request without waiting for the handler of the one before, so a second  *)
(* analyzeJar call runs between the awaits of the first.  The second       *)
(* local repository is empty, so both calls come to the menu; the operator *)
(* declines every confirmation, and answers the second menu with 4 (skip). *)
(***************************************************************************)
SecondProbe ==
  \E d \in Artifacts :
    /\ second.pc = "idle"
    /\ ~jarCache[d].present
    /\ ~files[d].main /\ ~files[d].sources
    /\ second' = [pc |-> "probed", dependency |-> d]
    /\ UNCHANGED <<offlineMode, offlineBy, netLog, rvars, rest, files, jarCache, call, outcome>>

SecondOfflineBlocked ==
  /\ second.pc = "probed"
  /\ offlineMode
  /\ second' = [second EXCEPT !.pc = "idle"]
  /\ UNCHANGED <<offlineMode, offlineBy, netLog, rvars, rest, files, jarCache, call, outcome>>

\* promptForMissingDependency -> askQuestion -> readline.question: nothing
\* looks whether another question is waiting for its answer
SecondPromptForMissingDependency ==
  /\ second.pc = "probed"
  /\ ~offlineMode
  /\ second' = [second EXCEPT !.pc = "menu"]
  /\ UNCHANGED <<offlineMode, offlineBy, netLog, rvars, rest, files, jarCache, call, outcome>>

SecondMenuSkip ==
  /\ second.pc = "menu"
  /\ second' = [second EXCEPT !.pc = "idle"]
  /\ UNCHANGED <<offlineMode, offlineBy, netLog, rvars, rest, files, jarCache, call, outcome>>

InitTwoCalls ==
  /\ InitAcquirer
  /\ files = [d \in Artifacts |-> NoFiles]

NextTwoCalls ==
  \/ AnalyzeProbe
  \/ OfflineBlocked
  \/ PromptForMissingDependency
  \/ MenuSkip
  \/ MenuOffline
  \/ MenuDownload
  \/ ConfirmDeclined
  \/ SetOfflineModeTool
  \/ SecondProbe
  \/ SecondOfflineBlocked
  \/ SecondPromptForMissingDependency
  \/ SecondMenuSkip

SpecTwoCalls == InitTwoCalls /\ [][NextTwoCalls]_vars

(***************************************************************************)
(* analyze_project tool: the loop over the list resolveDependencyTree      *)
(* returned.  The list holds each coordinate once and no optional          *)
(* declaration, and a declaration of the root manifest in whatever scope.  *)
(***************************************************************************)
RECURSIVE Distinct(_)
Distinct(deps) ==
  \/ deps = <<>>
  \/ /\ CoordinateOf(Head(deps)) \notin {CoordinateOf(Tail(deps)[k]) : k \in 1..(Len(deps) - 1)}
     /\ Distinct(Tail(deps))

ResolvedSets ==
  UNION {{deps \in [1..l -> {d \in Declarations :
                               ~d.optional /\ CoordinateOf(d) \in Artifacts}] :
            Distinct(deps)} : l \in 0..NumArtifacts}

\* parsePom and resolveDependencyTree returned; the loop begins
AnalyzeProjectBegin ==
  \E deps \in ResolvedSets :
    /\ batch.pc = "idle"
    /\ call.pc = "idle"
    /\ batch' = [IdleBatch EXCEPT !.pc = "loop", !.dependencies = deps]
    /\ UNCHANGED <<offlineMode, offlineBy, netLog, rvars, second, files, jarCache,
                   call, outcome, cvars, evars>>

InBatch == batch.pc = "loop" /\ batch.i <= Len(batch.dependencies)

Dependency == batch.dependencies[batch.i]

\* dependency.scope === 'test' || dependency.scope === 'provided'
SkipsNoScope(d) == FALSE
SkipsScope(d) == d.scope \in {"test", "provided"}

\* the loop passes over a test or provided dependency
AnalyzeProjectSkips ==
  /\ InBatch
  /\ SkipsScope(Dependency)
  /\ batch' = [batch EXCEPT !.i = @ + 1, !.processedCount = @ + 1]
  /\ UNCHANGED <<offlineMode, offlineBy, netLog, rvars, second, files, jarCache,
                 call, outcome, cvars, evars>>

Invoking ==
  [batch EXCEPT !.pc = "awaiting",
                !.invoked = Append(@, Dependency)]

\* the loop calls analyzeJar(dependency) and awaits it
AnalyzeProjectCached ==
  /\ InBatch
  /\ ~SkipsScope(Dependency)
  /\ AnalyzeJarCached(CoordinateOf(Dependency))
  /\ batch' = Invoking
  /\ UNCHANGED <<cvars, evars>>

AnalyzeProjectProbe ==
  /\ InBatch
  /\ ~SkipsScope(Dependency)
  /\ AnalyzeJarProbe(CoordinateOf(Dependency))
  /\ batch' = Invoking
  /\ UNCHANGED <<cvars, evars>>

\* analyzeJar returned: the classes are indexed, the progress is reported
AnalyzeProjectIndexes ==
  /\ batch.pc = "awaiting"
  /\ call.pc = "idle"
  /\ outcome.how \in {"cached", "resolved"}
  /\ batch' = [batch EXCEPT !.pc = "loop", !.i = @ + 1, !.processedCount = @ + 1,
                            !.indexed = @ \cup {CoordinateOf(Dependency)}]
  /\ UNCHANGED <<offlineMode, offlineBy, netLog, rvars, second, files, jarCache,
                 call, outcome, cvars, evars>>

\* analyzeJar threw: caught and logged, the loop goes on
AnalyzeProjectGivesUp ==
  /\ batch.pc = "awaiting"
  /\ call.pc = "idle"
  /\ outcome.how \notin {"cached", "resolved"}
  /\ batch' = [batch EXCEPT !.pc = "done", !.processedCount = @ + 1]
  /\ UNCHANGED <<offlineMode, offlineBy, netLog, rvars, second, files, jarCache,
                 call, outcome, cvars, evars>>

AnalyzeProjectCatches ==
  /\ batch.pc = "awaiting"
  /\ call.pc = "idle"
  /\ outcome.how \notin {"cached", "resolved"}
  /\ batch' = [batch EXCEPT !.pc = "loop", !.i = @ + 1, !.processedCount = @ + 1]
  /\ UNCHANGED <<offlineMode, offlineBy, netLog, rvars, second, files, jarCache,
                 call, outcome, cvars, evars>>

\* the loop is exhausted: the tool answers
AnalyzeProjectEnds ==
  /\ batch.pc = "loop"
  /\ batch.i > Len(batch.dependencies)
  /\ batch' = [batch EXCEPT !.pc = "done"]
  /\ UNCHANGED <<offlineMode, offlineBy, netLog, rvars, second, files, jarCache,
                 call, outcome, cvars, evars>>

NextProject ==
  \/ AnalyzeProjectBegin
  \/ AnalyzeProjectSkips
  \/ AnalyzeProjectCached
  \/ AnalyzeProjectProbe
  \/ AnalyzeProjectIndexes
  \/ AnalyzeProjectCatches
  \/ AnalyzeProjectEnds
  \/ UseLocalMain
  \/ UseLocalSources
  \/ OfflineBlocked
  \/ PromptForMissingDependency
  \/ MenuSkip
  \/ MenuOffline
  \/ MenuDownload
  \/ ConfirmDeclined
  \/ ConfirmDeclinedEnsuring
  \/ Confirmed
  \/ FetchFails
  \/ FetchFailsEnsuring
  \/ FetchedMore
  \/ FetchedLast
  \/ FetchedLastUnreadable
  \/ FetchedEnsuring
  \/ EnsureSourcesJarAsks
  \/ EnsureSourcesJarPasses
  \/ LimitedAnalysisYes
  \/ LimitedAnalysisNo
  \/ FetchJavadocJar
  \/ EnsureJavadocJarPasses
  \/ JavadocFetched
  \/ JavadocFetchFails
  \/ ParseJarFile
  \/ ParseJarFileThrows

\* Of a coordinate the local repository holds the main archive, the sources
\* archive or nothing, and the store holds an analysis made earlier of a
\* main archive or none.
InitProject ==
  /\ offlineMode = FALSE
  /\ offlineBy = "nobody"
  /\ netLog = {}
  /\ rootPom = UnknownManifest
  /\ repo = [c \in Coords |-> UnknownManifest]
  /\ rpc = "idle"
  /\ stack = <<>>
  /\ resolvedDeps = <<>>
  /\ processedDeps = {}
  /\ result = <<>>
  /\ pomCache = NoCache
  /\ treeCache = NoCache
  /\ expanded = [c \in Coords |-> 0]
  /\ files \in [Artifacts -> {NoFiles, [NoFiles EXCEPT !.main = TRUE],
                               [NoFiles EXCEPT !.sources = TRUE]}]
  /\ jarCache \in [Artifacts -> {NoAnalysis, [present |-> TRUE, mode |-> "primary"]}]
  /\ \A d \in Artifacts : jarCache[d].present => files[d].main
  /\ call = IdleCall
  /\ outcome = NoOutcome
  /\ second = IdleSecond
  /\ batch = IdleBatch
  /\ CacheServiceReady
  /\ docs = [d \in Artifacts |-> NoPage]
  /\ NothingIndexed
  /\ cacheEnabled = TRUE

SpecProject == InitProject /\ [][NextProject]_vars

(***************************************************************************)
(* CacheService: the write accessors, the debounced flush, clearCache, the *)
(* signal handlers of index.ts and the load at construction.  An awaited   *)
(* file operation takes effect when its await completes.                   *)
(***************************************************************************)
serving ==
  <<offlineMode, offlineBy, netLog, rootPom, repo, rpc, stack, resolvedDeps,
    processedDeps, result, expanded, files, call, outcome, second, batch, evars>>

\* scheduleAutoPersist: clears the timer that is set and sets a new one
ScheduleNothing ==
  UNCHANGED timer

ScheduleAnother ==
  /\ persistTimeoutId' = TRUE
  /\ timers' = timers + 1

ScheduleAutoPersist ==
  /\ persistTimeoutId' = TRUE
  /\ timers' = IF persistTimeoutId THEN timers ELSE timers + 1

\* A request calls a write accessor.
Accessing ==
  /\ proc = "up"
  /\ calls < MaxCalls
  /\ calls' = calls + 1
  /\ UNCHANGED <<serving, cacheEnabled, flushes, clearing, disk, proc, boot>>

\* cachePom(pomPath, project)
CachePomEntry ==
  /\ Accessing
  /\ \E project \in Listings : pomCache' = CachePom(project)
  /\ IF cacheEnabled THEN ScheduleAutoPersist ELSE UNCHANGED timer
  /\ UNCHANGED <<treeCache, jarCache, sourceCodeCache, javadocCache>>

\* cacheDependencyTree(pomPath, dependencies)
CacheDependencyTreeEntry ==
  /\ Accessing
  /\ \E dependencies \in Listings : treeCache' = CacheDependencyTree(dependencies)
  /\ IF cacheEnabled THEN ScheduleAutoPersist ELSE UNCHANGED timer
  /\ UNCHANGED <<pomCache, jarCache, sourceCodeCache, javadocCache>>

\* cacheJarAnalysis(dependency, classes)
CacheJarAnalysis ==
  /\ Accessing
  /\ \E d \in {CoordOf(1)}, classes \in Analyses :
       jarCache' = IF cacheEnabled THEN [jarCache EXCEPT ![d] = classes]
                   ELSE jarCache
  /\ IF cacheEnabled THEN ScheduleAutoPersist ELSE UNCHANGED timer
  /\ UNCHANGED <<pomCache, treeCache, sourceCodeCache, javadocCache>>

\* cacheSourceCode(filename, source)
CacheSourceCode ==
  /\ Accessing
  /\ \E source \in Texts :
       sourceCodeCache' = IF cacheEnabled THEN Cached(source) ELSE sourceCodeCache
  /\ UNCHANGED <<pomCache, treeCache, jarCache, javadocCache, timer>>

\* cacheJavadoc(className, javadoc)
CacheJavadoc ==
  /\ Accessing
  /\ \E javadoc \in Texts :
       javadocCache' = IF cacheEnabled THEN Cached(javadoc) ELSE javadocCache
  /\ UNCHANGED <<pomCache, treeCache, jarCache, sourceCodeCache, timer>>

\* persistCache returns, from its last line, its first or its catch
PersistReturns(f) ==
  [flushes EXCEPT ![f] =
     IF f = "signal"
     THEN [IdleFlush EXCEPT
             !.pc = "returned",
             !.since = IF flushes[f].pc = "idle" THEN calls + 1
                       ELSE flushes[f].since]
     ELSE IdleFlush]

\* persistCache up to its first await: nothing when the cache is disabled,
\* else mkdir of the cache directory
PersistCache(f) ==
  IF cacheEnabled
  THEN [flushes EXCEPT ![f] =
          [IdleFlush EXCEPT
             !.pc = "mkdir",
             !.since = IF f = "signal" THEN calls + 1 ELSE calls,
             !.alone = /\ boot = "done"
                       /\ clearing = "idle"
                       /\ \A g \in Flushers \ {f} : flushes[g].pc = "idle"]]
  ELSE PersistReturns(f)

\* The manifest, resolved-set and archive stores are empty.
NothingToPersist ==
  /\ ~pomCache.present
  /\ ~treeCache.present
  /\ \A d \in Artifacts : ~jarCache[d].present

\* The callback of the flush timer.  A load, a flush or a clearCache call
\* takes far less than the delay of 30 seconds: what was under way when the
\* timer was set is over when it fires (a clearCache call that is not over
\* began after the last write that set the timer).
TimerFires ==
  /\ proc = "up"
  /\ timers > 0
  /\ flushes["timer"].pc = "idle"
  /\ boot = "done"
  /\ clearing = "idle" \/ NothingToPersist
  /\ timers' = timers - 1
  /\ flushes' = PersistCache("timer")
  /\ persistTimeoutId' = FALSE
  /\ UNCHANGED <<serving, memory, cacheEnabled, clearing, disk, proc, boot, calls>>

Flushing(f) ==
  /\ proc = "up"
  /\ UNCHANGED <<serving, memory, cacheEnabled, timer, clearing, proc, boot, calls>>

\* persistCache: the cache directory is made, pom-cache.json is written
PersistMkdir(f) ==
  /\ Flushing(f)
  /\ flushes[f].pc = "mkdir"
  /\ disk' = [disk EXCEPT !.dir = TRUE]
  /\ flushes' = [flushes EXCEPT ![f] = [@ EXCEPT !.pc = "pom", !.pom = pomCache]]

\* pom-cache.json is there, dependency-tree-cache.json is written
PersistPom(f) ==
  /\ Flushing(f)
  /\ flushes[f].pc = "pom"
  /\ IF disk.dir
     THEN /\ disk' = [disk EXCEPT !.pom = Good(flushes[f].pom)]
          /\ flushes' = [flushes EXCEPT ![f] =
                           [@ EXCEPT !.pc = "tree", !.pom = NoCache,
                                     !.tree = treeCache]]
     ELSE /\ disk' = disk
          /\ flushes' = PersistReturns(f)

\* dependency-tree-cache.json is there, the jar-cache directory is made and
\* the files of the archive store's entries are written
PersistTreeNot(f) ==
  /\ Flushing(f)
  /\ flushes[f].pc = "tree"
  /\ disk' = disk
  /\ flushes' = [flushes EXCEPT ![f] =
                   [@ EXCEPT !.pc = "jar", !.tree = NoCache, !.jar = jarCache]]

PersistTree(f) ==
  /\ Flushing(f)
  /\ flushes[f].pc = "tree"
  /\ IF disk.dir
     THEN /\ disk' = [disk EXCEPT !.tree = Good(flushes[f].tree)]
          /\ flushes' = [flushes EXCEPT ![f] =
                           [@ EXCEPT !.pc = "jar", !.tree = NoCache,
                                     !.jar = jarCache]]
     ELSE /\ disk' = disk
          /\ flushes' = PersistReturns(f)

\* the jar-cache directory and the entries' files are there,
\* jar-cache-index.json is written
PersistJar(f) ==
  /\ Flushing(f)
  /\ flushes[f].pc = "jar"
  /\ disk' = [disk EXCEPT
                !.dir = TRUE,
                !.jar = [d \in Artifacts |->
                           IF flushes[f].jar[d].present
                           THEN Good(flushes[f].jar[d]) ELSE @[d]]]
  /\ flushes' = [flushes EXCEPT ![f] =
                   [@ EXCEPT
                      !.pc = "index",
                      !.jar = IdleFlush.jar,
                      !.index = {d \in Artifacts : flushes[f].jar[d].present}]]

\* jar-cache-index.json is there: persistCache returns
PersistIndex(f) ==
  /\ Flushing(f)
  /\ flushes[f].pc = "index"
  /\ disk' = IF disk.dir THEN [disk EXCEPT !.index = Good(flushes[f].index)]
             ELSE disk
  /\ flushes' = PersistReturns(f)

\* an awaited mkdir or writeFile of persistCache throws
PersistFails(f) ==
  /\ Flushing(f)
  /\ flushes[f].pc \in {"mkdir", "pom", "tree", "jar", "index"}
  /\ disk' = disk
  /\ flushes' = PersistReturns(f)

Persisting ==
  \E f \in Flushers :
    \/ PersistMkdir(f)
    \/ PersistPom(f)
    \/ PersistTree(f)
    \/ PersistJar(f)
    \/ PersistIndex(f)
    \/ PersistFails(f)

\* clearCache up to its first await: the stores are cleared, rm is called
ClearCacheBegin ==
  /\ proc = "up"
  /\ clearing = "idle"
  /\ clearing' = "rm"
  /\ pomCache' = NoCache
  /\ treeCache' = NoCache
  /\ jarCache' = [d \in Artifacts |-> NoAnalysis]
  /\ sourceCodeCache' = NoText
  /\ javadocCache' = NoText
  /\ calls < MaxCalls
  /\ calls' = calls + 1
  /\ UNCHANGED <<serving, cacheEnabled, timer, flushes, disk, proc, boot>>

\* the directory is removed with all it holds, mkdir is called
ClearCacheRm ==
  /\ proc = "up"
  /\ clearing = "rm"
  /\ clearing' = "mkdir"
  /\ disk' = NoDirectory
  /\ UNCHANGED <<serving, memory, cacheEnabled, timer, flushes, proc, boot, calls>>

\* the directory is made again: clearCache returns
ClearCacheMkdir ==
  /\ proc = "up"
  /\ clearing = "mkdir"
  /\ clearing' = "idle"
  /\ disk' = [disk EXCEPT !.dir = TRUE]
  /\ UNCHANGED <<serving, memory, cacheEnabled, timer, flushes, proc, boot, calls>>

\* rm or mkdir throws: clearCache warns and returns
ClearCacheFails ==
  /\ proc = "up"
  /\ clearing \in {"rm", "mkdir"}
  /\ clearing' = "idle"
  /\ UNCHANGED <<serving, memory, cacheEnabled, timer, flushes, disk, proc, boot, calls>>

\* The SIGINT or SIGTERM handler up to its await of persistCache.
Signal ==
  /\ proc = "up"
  /\ flushes["signal"].pc = "idle"
  /\ flushes' = PersistCache("signal")
  /\ calls < MaxCalls
  /\ calls' = calls + 1
  /\ UNCHANGED <<serving, memory, cacheEnabled, timer, clearing, disk, proc, boot>>

\* The handler after its await: process.exit(0).  The process's memory,
\* timers and calls under way are gone.
ProcessExit ==
  /\ proc = "up"
  /\ flushes["signal"].pc = "returned"
  /\ proc' = "down"
  /\ pomCache' = NoCache
  /\ treeCache' = NoCache
  /\ jarCache' = [d \in Artifacts |-> NoAnalysis]
  /\ sourceCodeCache' = NoText
  /\ javadocCache' = NoText
  /\ cacheEnabled' = TRUE
  /\ persistTimeoutId' = FALSE
  /\ timers' = 0
  /\ flushes' = [f \in Flushers |-> IdleFlush]
  /\ clearing' = "idle"
  /\ boot' = "done"
  /\ UNCHANGED <<serving, disk, calls>>

\* The snapshot files that cannot be parsed.
Corrupt ==
  Cardinality({n \in {"pom", "tree", "index"} : disk[n].state = "corrupt"})
    + Cardinality({d \in Artifacts : disk.jar[d].state = "corrupt"})

\* Between two runs of the server a snapshot file is damaged.
Damage ==
  /\ proc = "down"
  /\ Corrupt < MaxIrregular
  /\ \/ \E n \in {"pom", "tree", "index"} :
          /\ disk[n].state = "good"
          /\ disk' = [disk EXCEPT ![n] = [NoDirectory[n] EXCEPT !.state = "corrupt"]]
     \/ \E d \in Artifacts :
          /\ disk.jar[d].state = "good"
          /\ disk' = [disk EXCEPT !.jar[d] = [NoFile(NoAnalysis) EXCEPT !.state = "corrupt"]]
  /\ UNCHANGED <<serving, memory, cacheEnabled, timer, flushes, clearing, proc, boot, calls>>

\* The server is started: new CacheService() up to initCache's first await.
Construct ==
  /\ proc = "down"
  /\ proc' = "up"
  /\ boot' = "mkdir"
  /\ UNCHANGED <<serving, memory, cacheEnabled, timer, flushes, clearing, disk, calls>>

Booting ==
  /\ proc = "up"
  /\ UNCHANGED <<serving, timer, flushes, clearing, proc, calls>>

\* initCache: the cache directory is made, loadPersistedCache is called
InitCacheMkdir ==
  /\ Booting
  /\ boot = "mkdir"
  /\ boot' = "pom"
  /\ disk' = [disk EXCEPT !.dir = TRUE]
  /\ UNCHANGED <<memory, cacheEnabled>>

\* initCache: mkdir throws
InitCacheFails ==
  /\ Booting
  /\ boot = "mkdir"
  /\ boot' = "done"
  /\ cacheEnabled' = FALSE
  /\ UNCHANGED <<memory, disk>>

\* What the store holds once the entries of a snapshot file are set in it.
LoadedNothing(file, store) == store

Loaded(file, store) ==
  IF file.state = "good" /\ file.content.present THEN file.content ELSE store

\* loadPersistedCache: pom-cache.json
LoadPomOrThrow ==
  /\ Booting
  /\ boot = "pom"
  /\ boot' = IF disk.pom.state = "good" THEN "tree" ELSE "done"
  /\ cacheEnabled' = (disk.pom.state = "good")
  /\ pomCache' = Loaded(disk.pom, pomCache)
  /\ UNCHANGED <<treeCache, jarCache, sourceCodeCache, javadocCache, disk>>

LoadPom ==
  /\ Booting
  /\ boot = "pom"
  /\ boot' = "tree"
  /\ pomCache' = Loaded(disk.pom, pomCache)
  /\ UNCHANGED <<treeCache, jarCache, sourceCodeCache, javadocCache, cacheEnabled, disk>>

\* loadPersistedCache: dependency-tree-cache.json
LoadTree ==
  /\ Booting
  /\ boot = "tree"
  /\ boot' = "jar"
  /\ treeCache' = Loaded(disk.tree, treeCache)
  /\ UNCHANGED <<pomCache, jarCache, sourceCodeCache, javadocCache, cacheEnabled, disk>>

\* loadPersistedCache: jar-cache-index.json and the files it names
LoadJar ==
  /\ Booting
  /\ boot = "jar"
  /\ boot' = "done"
  /\ jarCache' = [d \in Artifacts |->
                    IF disk.index.state = "good" /\ d \in disk.index.content
                    THEN Loaded(disk.jar[d], jarCache[d])
                    ELSE jarCache[d]]
  /\ UNCHANGED <<pomCache, treeCache, sourceCodeCache, javadocCache, cacheEnabled, disk>>

InitCacheService ==
  /\ offlineMode = FALSE
  /\ offlineBy = "nobody"
  /\ netLog = {}
  /\ rootPom = UnknownManifest
  /\ repo = [c \in Coords |-> UnknownManifest]
  /\ rpc = "idle"
  /\ stack = <<>>
  /\ resolvedDeps = <<>>
  /\ processedDeps = {}
  /\ result = <<>>
  /\ pomCache = NoCache
  /\ treeCache = NoCache
  /\ expanded = [c \in Coords |-> 0]
  /\ files = [d \in Artifacts |-> NoFiles]
  /\ jarCache = [d \in Artifacts |-> NoAnalysis]
  /\ call = IdleCall
  /\ outcome = NoOutcome
  /\ second = IdleSecond
  /\ batch = IdleBatch
  /\ cacheEnabled = TRUE
  /\ sourceCodeCache = NoText
  /\ javadocCache = NoText
  /\ persistTimeoutId = FALSE
  /\ timers = 0
  /\ flushes = [f \in Flushers |-> IdleFlush]
  /\ clearing = "idle"
  /\ disk = NoDirectory
  /\ proc = "up"
  /\ boot = "mkdir"
  /\ calls = 0
  /\ docs = [d \in Artifacts |-> NoPage]
  /\ NothingIndexed
  /\ enriched = [d \in Artifacts |-> NotEnriched]
  /\ snapshot = NoSnapshot

NextCacheService ==
  \/ CachePomEntry
  \/ CacheDependencyTreeEntry
  \/ CacheJarAnalysis
  \/ CacheSourceCode
  \/ CacheJavadoc
  \/ TimerFires
  \/ Persisting
  \/ ClearCacheBegin
  \/ ClearCacheRm
  \/ ClearCacheMkdir
  \/ ClearCacheFails
  \/ Signal
  \/ ProcessExit
  \/ Damage
  \/ Construct
  \/ InitCacheMkdir
  \/ InitCacheFails
  \/ LoadPom
  \/ LoadTree
  \/ LoadJar

SpecCacheService == InitCacheService /\ [][NextCacheService]_vars

(***************************************************************************)
(* JarAnalyzer.parseJarFile: the documentation of a class.  The class has  *)
(* the same package and name in every coordinate (two versions of one      *)
(* library, say); each coordinate's javadoc archive has its own page.      *)
(***************************************************************************)
\* What enrichClassInfoFromJavadoc extracts from a page: the text of its
\* first class description block, if there is one.
Description(page) == IF page.block THEN Cached(page.text) ELSE NoText

Documenting ==
  UNCHANGED <<offlineMode, offlineBy, netLog, rvars, files, jarCache, call,
              outcome, second, batch, sourceCodeCache, timer, flushes, clearing,
              disk, proc, boot, calls, docs, classIndex, results, methodIndex,
              methodResults, snapshot>>

\* enrichClassInfoFromJavadoc(classInfo, javadocContent) for the class of d:
\* getCachedJavadoc(fullClassName) returns a text
EnrichFromCache(d) ==
  /\ javadocCache.present
  /\ enriched' = [enriched EXCEPT ![d] = [done |-> TRUE, javadoc |-> javadocCache]]
  /\ javadocCache' = javadocCache
  /\ Documenting

\* getCachedJavadoc(fullClassName) returns nothing: the description is
\* extracted from the page and cached under the class name
EnrichFromPage(d) ==
  /\ ~javadocCache.present
  /\ enriched' = [enriched EXCEPT
                    ![d] = [done |-> TRUE, javadoc |-> Description(docs[d])]]
  /\ javadocCache' = IF docs[d].block /\ cacheEnabled
                     THEN Description(docs[d]) ELSE javadocCache
  /\ Documenting

EnrichClassInfoFromJavadoc ==
  \E d \in Artifacts : EnrichFromCache(d) \/ EnrichFromPage(d)

InitDocumentation ==
  /\ offlineMode = FALSE
  /\ offlineBy = "nobody"
  /\ netLog = {}
  /\ rootPom = UnknownManifest
  /\ repo = [c \in Coords |-> UnknownManifest]
  /\ rpc = "idle"
  /\ stack = <<>>
  /\ resolvedDeps = <<>>
  /\ processedDeps = {}
  /\ result = <<>>
  /\ pomCache = NoCache
  /\ treeCache = NoCache
  /\ expanded = [c \in Coords |-> 0]
  /\ files = [d \in Artifacts |-> NoFiles]
  /\ jarCache = [d \in Artifacts |-> NoAnalysis]
  /\ call = IdleCall
  /\ outcome = NoOutcome
  /\ second = IdleSecond
  /\ batch = IdleBatch
  /\ cacheEnabled \in BOOLEAN
  /\ CacheServiceReady
  /\ docs \in [Artifacts -> Pages]
  /\ NothingIndexed

NextDocumentation ==
  \/ EnrichClassInfoFromJavadoc
  \/ ClearCache

SpecDocumentation == InitDocumentation /\ [][NextDocumentation]_vars

(***************************************************************************)
(* ApiSearch (services/api-search.ts): the class index and searchClasses.  *)
(* A string is the sequence of its characters.                             *)
(***************************************************************************)
Letters == {"a", "A", "b", "B"}

\* the strings of at most n characters of the set
Strings(chars, n) == UNION {[1..l -> chars] : l \in 0..n}

\* String.prototype.toLowerCase, character by character
ToLowerCaseNot(s) == s

ToLowerCase(s) ==
  [i \in 1..Len(s) |->
     CASE s[i] = "A" -> "a"
       [] s[i] = "B" -> "b"
       [] OTHER -> s[i]]

\* String.prototype.includes
Includes(s, sub) ==
  \E i \in 0..(Len(s) - Len(sub)) : SubSeq(s, i + 1, i + Len(sub)) = sub

\* The classes that are indexed: package and name of one letter, with or
\* without documentation.
NoJavadoc == [present |-> FALSE, value |-> <<>>]

JavaClasses ==
  [packageName : {<<"a">>, <<"B">>}, name : {<<"a">>, <<"B">>},
   javadoc : {NoJavadoc, Cached(<<"A">>), Cached(<<"b">>)}, methods : {<<>>}]

\* `${javaClass.packageName}.${javaClass.name}`
FullClassName(javaClass) == javaClass.packageName \o <<".">> \o javaClass.name

\* Map.set: a new key is appended, the value of a key that is there is
\* replaced in its place
MapSet(map, key, value) ==
  IF \E i \in 1..Len(map) : map[i][1] = key
  THEN [i \in 1..Len(map) |-> IF map[i][1] = key THEN <<key, value>> ELSE map[i]]
  ELSE Append(map, <<key, value>>)

\* `${fullClassName}#${method.name}`
MethodKey(fullClassName, method) == fullClassName \o <<"#">> \o method.name

\* method.modifiers.includes('private')
IsPrivate(method) == \E i \in 1..Len(method.modifiers) : method.modifiers[i] = "private"

\* the loop of addClassToIndex over the methods from the n-th on
RECURSIVE IndexMethods(_, _, _, _)
IndexMethods(index, fullClassName, methods, n) ==
  IF n > Len(methods) THEN index
  ELSE IF IsPrivate(methods[n])
       THEN IndexMethods(index, fullClassName, methods, n + 1)
       ELSE IndexMethods(MapSet(index, MethodKey(fullClassName, methods[n]),
                                [className |-> fullClassName, method |-> methods[n]]),
                         fullClassName, methods, n + 1)

\* addClassToIndex(javaClass): the class index, then the method index
AddClass(javaClass) ==
  /\ classIndex' = MapSet(classIndex, FullClassName(javaClass), javaClass)
  /\ methodIndex' = IndexMethods(methodIndex, FullClassName(javaClass),
                                 javaClass.methods, 1)
  /\ results' = NoResults
  /\ methodResults' = NoMethodResults
  /\ UNCHANGED <<offlineMode, offlineBy, netLog, rvars, files, jarCache, call,
                 outcome, second, batch, cvars, docs, enriched, snapshot>>

AddClassToIndex ==
  \E javaClass \in JavaClasses :
    /\ Len(MapSet(classIndex, FullClassName(javaClass), javaClass)) <= MaxClasses
    /\ AddClass(javaClass)

\* the loop of searchClasses over the entries from the n-th on
RECURSIVE SearchFrom(_, _)
SearchFrom(n, lowerQuery) ==
  IF n > Len(classIndex) THEN <<>>
  ELSE LET className == classIndex[n][1]
           classInfo == classIndex[n][2]
       IN IF Includes(ToLowerCase(className), lowerQuery)
          THEN <<classInfo>> \o SearchFrom(n + 1, lowerQuery)
          ELSE IF /\ classInfo.javadoc.present
                  /\ Includes(ToLowerCase(classInfo.javadoc.value), lowerQuery)
               THEN <<classInfo>> \o SearchFrom(n + 1, lowerQuery)
               ELSE SearchFrom(n + 1, lowerQuery)

\* searchClasses(query)
SearchClasses ==
  \E query \in Strings(Letters \cup {"."}, 2) :
    /\ results' = [done |-> TRUE, query |-> query,
                   classes |-> SearchFrom(1, ToLowerCase(query))]
    /\ UNCHANGED <<classIndex, methodIndex, methodResults>>
    /\ UNCHANGED <<offlineMode, offlineBy, netLog, rvars, files, jarCache, call,
                   outcome, second, batch, cvars, docs, enriched, snapshot>>

InitSearch ==
  /\ offlineMode = FALSE
  /\ offlineBy = "nobody"
  /\ netLog = {}
  /\ rootPom = UnknownManifest
  /\ repo = [c \in Coords |-> UnknownManifest]
  /\ rpc = "idle"
  /\ stack = <<>>
  /\ resolvedDeps = <<>>
  /\ processedDeps = {}
  /\ result = <<>>
  /\ pomCache = NoCache
  /\ treeCache = NoCache
  /\ expanded = [c \in Coords |-> 0]
  /\ files = [d \in Artifacts |-> NoFiles]
  /\ jarCache = [d \in Artifacts |-> NoAnalysis]
  /\ call = IdleCall
  /\ outcome = NoOutcome
  /\ second = IdleSecond
  /\ batch = IdleBatch
  /\ cacheEnabled = TRUE
  /\ CacheServiceReady
  /\ docs = [d \in Artifacts |-> NoPage]
  /\ NothingIndexed

NextSearch ==
  \/ AddClassToIndex
  \/ SearchClasses

SpecSearch == InitSearch /\ [][NextSearch]_vars

(***************************************************************************)
(* ApiSearch: the method index and searchMethods.  The classes indexed    *)
(* here have methods; a relevance is counted in halves, so that the 0.5   *)
(* of a parameter name is the integer 1.                                   *)
(***************************************************************************)
Parameters == {[type |-> <<"A">>, name |-> <<"a">>]}

JavaMethods ==
  [name : {<<"a">>, <<"B">>}, returnType : {<<"A">>, <<"b">>},
   parameters : {<<>>} \cup [1..MaxParams -> Parameters],
   modifiers : {<<"public">>}, javadoc : {NoJavadoc}]
  \cup
  [name : {<<"a">>}, returnType : {<<"b">>}, parameters : {<<>>},
   modifiers : {<<"public", "static">>, <<"private">>},
   javadoc : {Cached(<<" ", "A", " ">>)}]

ClassesWithMethods ==
  [packageName : {<<"a">>}, name : {<<"B">>}, javadoc : {NoJavadoc},
   methods : UNION {[1..l -> JavaMethods] : l \in 0..MaxMethods}]

\* the methods the classes of the index have, all in all
RECURSIVE MethodCount(_, _)
MethodCount(index, n) ==
  IF n > Len(index) THEN 0
  ELSE Len(index[n][2].methods) + MethodCount(index, n + 1)

\* addClassToIndex(javaClass) of a class that has methods
AddClassWithMethods ==
  \E javaClass \in ClassesWithMethods :
    /\ Len(MapSet(classIndex, FullClassName(javaClass), javaClass)) <= MaxClasses
    /\ MethodCount(MapSet(classIndex, FullClassName(javaClass), javaClass), 1)
         <= MaxMethods
    /\ Len(IndexMethods(methodIndex, FullClassName(javaClass), javaClass.methods, 1))
         <= MaxMethods
    /\ AddClass(javaClass)

\* Map.get
MapHas(map, key) == \E i \in 1..Len(map) : map[i][1] = key
MapGet(map, key) == map[CHOOSE i \in 1..Len(map) : map[i][1] = key][2]

\* the loop of searchMethods over the parameters from the n-th on
RECURSIVE ParameterRelevance(_, _, _)
ParameterRelevance(parameters, lowerQuery, n) ==
  IF n > Len(parameters) THEN 0
  ELSE (IF Includes(ToLowerCase(parameters[n].type), lowerQuery) THEN 2 ELSE 0)
       + (IF Includes(ToLowerCase(parameters[n].name), lowerQuery) THEN 1 ELSE 0)
       + ParameterRelevance(parameters, lowerQuery, n + 1)

NameRelevanceOne(method, lowerQuery) ==
  IF Includes(ToLowerCase(method.name), lowerQuery) THEN 2 ELSE 0

NameRelevance(method, lowerQuery) ==
  IF Includes(ToLowerCase(method.name), lowerQuery) THEN 6 ELSE 0

\* the relevance searchMethods gives a method, in halves
Relevance(method, lowerQuery) ==
  NameRelevance(method, lowerQuery)
  + (IF Includes(ToLowerCase(method.returnType), lowerQuery) THEN 2 ELSE 0)
  + ParameterRelevance(method.parameters, lowerQuery, 1)
  + (IF /\ method.javadoc.present
        /\ Includes(ToLowerCase(method.javadoc.value), lowerQuery)
     THEN 4 + (IF Includes(ToLowerCase(method.javadoc.value),
                           <<" ">> \o lowerQuery \o <<" ">>)
               THEN 2 ELSE 0)
     ELSE 0)

\* the loop of searchMethods over the entries from the n-th on
RECURSIVE MethodsFrom(_, _)
MethodsFrom(n, lowerQuery) ==
  IF n > Len(methodIndex) THEN <<>>
  ELSE LET className == methodIndex[n][2].className
           method == methodIndex[n][2].method
       IN IF ~MapHas(classIndex, className)
          THEN MethodsFrom(n + 1, lowerQuery)
          ELSE LET classInfo == MapGet(classIndex, className)
                   relevance == Relevance(method, lowerQuery)
               IN IF relevance > 0
                  THEN <<[className |-> classInfo.name,
                          packageName |-> classInfo.packageName,
                          methodName |-> method.name,
                          relevance |-> relevance]>>
                       \o MethodsFrom(n + 1, lowerQuery)
                  ELSE MethodsFrom(n + 1, lowerQuery)

\* results.sort((a, b) => b.relevance - a.relevance): a stable sort
RECURSIVE SortByRelevance(_)
SortByRelevance(seq) ==
  IF seq = <<>> THEN <<>>
  ELSE LET sorted == SortByRelevance(SubSeq(seq, 1, Len(seq) - 1))
           last == seq[Len(seq)]
           before == {i \in 1..Len(sorted) : sorted[i].relevance >= last.relevance}
       IN SubSeq(sorted, 1, Cardinality(before)) \o <<last>>
          \o SubSeq(sorted, Cardinality(before) + 1, Len(sorted))

\* searchMethods(query); the snippet of a result is left out
SearchMethods ==
  \E query \in Strings(Letters, 1) :
    /\ methodResults' = [done |-> TRUE, query |-> query,
                         methods |-> SortByRelevance(MethodsFrom(1, ToLowerCase(query)))]
    /\ UNCHANGED <<classIndex, methodIndex, results>>
    /\ UNCHANGED <<offlineMode, offlineBy, netLog, rvars, files, jarCache, call,
                   outcome, second, batch, cvars, docs, enriched, snapshot>>

NextMethodSearch ==
  \/ AddClassWithMethods
  \/ SearchMethods

SpecMethodSearch == InitSearch /\ [][NextMethodSearch]_vars

(***************************************************************************)
(* CacheService: the archive store's keys and the names of its files.  A  *)
(* file of the jar-cache directory is named by what path.join adds         *)
(* `${safeKey}.json` to; JSON text is the sequence of its members.         *)
(***************************************************************************)
KeyedDependencies ==
  [groupId : {<<"a">>, <<"a", "_", "b">>}, artifactId : {<<"b">>, <<"b", "_", "b">>},
   version : {<<"1">>}]

\* `${dependency.groupId}:${dependency.artifactId}:${dependency.version}`
JarCacheKey(dependency) ==
  dependency.groupId \o <<":">> \o dependency.artifactId \o <<":">> \o dependency.version

\* The class lists that are cached: a class has a name and may have
\* documentation.
ClassLists ==
  {<<>>, <<[name |-> <<"X">>, javadoc |-> NoJavadoc]>>,
   <<[name |-> <<"Y">>, javadoc |-> Cached(<<"d">>)]>>}

\* key.replace(/[/:]/g, '_')
SafeKey(key) ==
  [i \in 1..Len(key) |-> IF key[i] \in {"/", ":"} THEN "_" ELSE key[i]]

\* JSON.stringify of a class list: a member that is undefined is left out
JsonStringify(classes) ==
  [i \in 1..Len(classes) |->
     IF classes[i].javadoc.present
     THEN <<"name", classes[i].name, "javadoc", classes[i].javadoc.value>>
     ELSE <<"name", classes[i].name>>]

\* JSON.parse of the text of a class list
JsonParse(text) ==
  [i \in 1..Len(text) |->
     [name |-> text[i][2],
      javadoc |-> IF Len(text[i]) = 4 THEN Cached(text[i][4]) ELSE NoJavadoc]]

\* cacheJarAnalysis(dependency, classes)
CacheKeyedAnalysis ==
  \E dependency \in KeyedDependencies, classes \in ClassLists :
    /\ snapshot.pc = "caching"
    /\ Len(MapSet(snapshot.jarCache, JarCacheKey(dependency), classes)) <= MaxEntries
    /\ snapshot' = [snapshot EXCEPT
                      !.jarCache = MapSet(@, JarCacheKey(dependency), classes)]
    /\ ScheduleAutoPersist
    /\ UNCHANGED <<offlineMode, offlineBy, netLog, rvars, files, jarCache, call,
                   outcome, second, batch, sourceCodeCache, javadocCache, flushes,
                   clearing, disk, proc, boot, calls, docs, enriched, classIndex,
                   results, methodIndex, methodResults>>

\* the loop of persistCache over the entries of jarCache from the n-th on:
\* the files written
RECURSIVE WriteJarFiles(_, _)
WriteJarFiles(written, n) ==
  IF n > Len(snapshot.jarCache) THEN written
  ELSE WriteJarFiles(MapSet(written, SafeKey(snapshot.jarCache[n][1]),
                            JsonStringify(snapshot.jarCache[n][2])),
                     n + 1)

\* persistCache, its archive store part: every entry's file is written,
\* then the index
PersistJarCache ==
  /\ snapshot.pc = "caching"
  /\ snapshot.jarCache # <<>>
  /\ snapshot' = [snapshot EXCEPT
                    !.pc = "persisted",
                    !.files = WriteJarFiles(<<>>, 1),
                    !.jarCacheIndex =
                       [n \in 1..Len(snapshot.jarCache) |->
                          [key |-> snapshot.jarCache[n][1],
                           filePath |-> SafeKey(snapshot.jarCache[n][1])]]]
  /\ UNCHANGED <<offlineMode, offlineBy, netLog, rvars, files, jarCache, call,
                 outcome, second, batch, cvars, docs, enriched, classIndex,
                 results, methodIndex, methodResults>>

\* the loop of loadPersistedCache over the entries of the index from the
\* n-th on
RECURSIVE LoadJarFiles(_, _)
LoadJarFiles(store, n) ==
  IF n > Len(snapshot.jarCacheIndex) THEN store
  ELSE LET entry == snapshot.jarCacheIndex[n]
       IN IF MapHas(snapshot.files, entry.filePath)
          THEN LoadJarFiles(MapSet(store, entry.key,
                                   JsonParse(MapGet(snapshot.files, entry.filePath))),
                            n + 1)
          ELSE LoadJarFiles(store, n + 1)

\* loadPersistedCache of a CacheService constructed after the flush, its
\* archive store part
LoadJarCache ==
  /\ snapshot.pc = "persisted"
  /\ snapshot' = [snapshot EXCEPT !.pc = "loaded", !.loaded = LoadJarFiles(<<>>, 1)]
  /\ UNCHANGED <<offlineMode, offlineBy, netLog, rvars, files, jarCache, call,
                 outcome, second, batch, cvars, docs, enriched, classIndex,
                 results, methodIndex, methodResults>>

NextJarSnapshot ==
  \/ CacheKeyedAnalysis
  \/ PersistJarCache
  \/ LoadJarCache

SpecJarSnapshot == InitSearch /\ [][NextJarSnapshot]_vars

(***************************************************************************)
(* The resolver, with the set_offline_mode tool beside it.                 *)
(***************************************************************************)
InitResolver ==
  /\ offlineMode = FALSE
  /\ netLog = {}
  /\ rootPom = UnknownManifest
  /\ repo = [c \in Coords |-> UnknownManifest]
  /\ rpc = "idle"
  /\ stack = <<>>
  /\ resolvedDeps = <<>>
  /\ processedDeps = {}
  /\ result = <<>>
  /\ pomCache = NoCache
  /\ treeCache = NoCache
  /\ expanded = [c \in Coords |-> 0]
  /\ offlineBy = "nobody"
  /\ files = [d \in Artifacts |-> NoFiles]
  /\ jarCache = [d \in Artifacts |-> NoAnalysis]
  /\ call = IdleCall
  /\ outcome = NoOutcome
  /\ second = IdleSecond
  /\ batch = IdleBatch
  /\ CacheServiceReady
  /\ docs = [d \in Artifacts |-> NoPage]
  /\ NothingIndexed
  /\ cacheEnabled = TRUE

NextResolver ==
  \/ ResolveCached
  \/ ResolveBegin
  \/ SkipScoped
  \/ SkipProcessedOrOptional
  \/ ExpandLocal
  \/ ExpandFetched
  \/ ExpandFetchNotOk
  \/ ExpandFetchThrows
  \/ ExpandParseFailsLocal
  \/ ExpandParseFailsFetched
  \/ ResolveFinish

SpecResolver == InitResolver /\ [][NextResolver]_vars

\* The resolver on a cache store whose initCache succeeded (the directory
\* could be made) or failed.
InitCacheStore ==
  /\ offlineMode = FALSE
  /\ netLog = {}
  /\ rootPom = UnknownManifest
  /\ repo = [c \in Coords |-> UnknownManifest]
  /\ rpc = "idle"
  /\ stack = <<>>
  /\ resolvedDeps = <<>>
  /\ processedDeps = {}
  /\ result = <<>>
  /\ pomCache = NoCache
  /\ treeCache = NoCache
  /\ expanded = [c \in Coords |-> 0]
  /\ offlineBy = "nobody"
  /\ files = [d \in Artifacts |-> NoFiles]
  /\ jarCache = [d \in Artifacts |-> NoAnalysis]
  /\ call = IdleCall
  /\ outcome = NoOutcome
  /\ second = IdleSecond
  /\ batch = IdleBatch
  /\ CacheServiceReady
  /\ docs = [d \in Artifacts |-> NoPage]
  /\ NothingIndexed
  /\ cacheEnabled \in BOOLEAN

SpecCacheStore == InitCacheStore /\ [][NextResolver]_vars

\* The server with its resolver and the set_offline_mode tool.
NextResolverOffline == NextResolver \/ SetOfflineModeTool

SpecResolverOffline == InitResolver /\ [][NextResolverOffline]_vars

(***************************************************************************)
(* Properties of the resolver.                                             *)
(***************************************************************************)
CoordsOf(deps) == {CoordinateOf(deps[i]) : i \in 1..Len(deps)}

Parsed(c) ==
  repo[c].known /\ repo[c].where \in {"local", "remote"} /\ repo[c].wellFormed

\* C1: the list returned by resolveDependencyTree never holds two entries
\* with the same (groupId, artifactId, version).
C1_NoDuplicateCoordinates ==
  \A i, j \in 1..Len(result) :
    CoordinateOf(result[i]) = CoordinateOf(result[j]) => i = j

\* the diamond root -> 1, root -> 2, 1 -> 3, 2 -> 3 has been resolved
C1_DiamondResolved ==
  /\ rpc = "done"
  /\ NumCoords >= 3
  /\ CoordsOf(rootPom.deps) = {CoordOf(1), CoordOf(2)}
  /\ Parsed(CoordOf(1)) /\ CoordsOf(repo[CoordOf(1)].deps) = {CoordOf(3)}
  /\ Parsed(CoordOf(2)) /\ CoordsOf(repo[CoordOf(2)].deps) = {CoordOf(3)}
  /\ CoordsOf(result) = {CoordOf(1), CoordOf(2), CoordOf(3)}

\* The declarations the pending for-loops have still to visit.
RECURSIVE Pending(_)
Pending(s) ==
  IF s = <<>> THEN 0
  ELSE (Len(Head(s).deps) + 1 - Head(s).i) + Pending(Tail(s))

\* The work a running call has left: the declarations still to visit, the
\* coordinates not yet processed (each may bring a manifest of MaxDeps
\* declarations) and the return of the call.
Remaining ==
  Pending(stack)
    + (NumCoords - Cardinality(processedDeps)) * (MaxDeps + 1)
    + (IF rpc = "running" THEN 1 ELSE 0)

\* A running call can take a step: its loop on top has a declaration to
\* visit (and the lookup of an unprocessed one has an outcome) or it is the
\* exhausted loop of resolveDependencyTree.
CanStep ==
  /\ stack # <<>>
  /\ Top.i <= Len(Top.deps) \/ Len(stack) = 1
  /\ (Called /\ ~Guarded(Current)) =>
        /\ Len(stack) < MaxDepth
        /\ Here.known \/ <<>> \in RevealableDeps(0)

\* C2: resolveDependencyTree terminates on every manifest graph, cycles
\* included: a running call can always take a step, every step it takes leaves less
\* work than before (the work is a natural number) and no coordinate's
\* manifest is looked up more than once in a call.
C2_TerminatesExpandingOnce ==
  /\ [][rpc = "running" => Remaining' < Remaining]_vars
  /\ [](Remaining >= 0)
  /\ [](rpc = "running" => CanStep)
  /\ [](\A c \in Coords : expanded[c] <= 1)

\* the cycle 1 -> 2, 2 -> 1 has been resolved
C2_CycleResolved ==
  /\ rpc = "done"
  /\ Parsed(CoordOf(1)) /\ CoordOf(2) \in CoordsOf(repo[CoordOf(1)].deps)
  /\ Parsed(CoordOf(2)) /\ CoordOf(1) \in CoordsOf(repo[CoordOf(2)].deps)
  /\ {CoordOf(1), CoordOf(2)} \subseteq CoordsOf(result)
  /\ expanded[CoordOf(1)] = 1 /\ expanded[CoordOf(2)] = 1

\* The coordinates that declarations lead to from the root manifest when the
\* manifest of t is not followed (every declaration counts, whatever its
\* scope or optional flag).
RECURSIVE ReachableAvoiding(_, _)
ReachableAvoiding(S, t) ==
  LET N == S \cup UNION {CoordsOf(repo[c].deps) : c \in S \ {t}}
  IN IF N = S THEN S ELSE ReachableAvoiding(N, t)

ScopedRootDeclarations ==
  {i \in 1..Len(rootPom.deps) :
     rootPom.deps[i].scope \in {"test", "provided"} /\ ~rootPom.deps[i].optional}

\* C3 as claimed: a root declaration T with scope test or provided puts T in
\* the result and nothing that is reachable only through T's manifest.
C3_ScopedRootChildrenExcluded ==
  rpc = "done" =>
    \A i \in ScopedRootDeclarations :
      LET t == CoordinateOf(rootPom.deps[i])
      IN /\ t \in CoordsOf(result)
         /\ CoordsOf(result) \subseteq ReachableAvoiding(CoordsOf(rootPom.deps), t)

Transitive(d) == d.scope \notin {"test", "provided"} /\ ~d.optional

\* C3 as amended: a root declaration T with scope test or provided puts T in
\* the result and T's manifest is expanded like any other (its declarations
\* that are neither test, provided nor optional are in the result); a
\* coordinate is in the result only through a non-optional root declaration
\* or through a declaration that is neither test, provided nor optional in
\* the manifest of a member of the result.
C3_ScopeFiltering ==
  rpc = "done" =>
    /\ \A i \in ScopedRootDeclarations :
         LET t == CoordinateOf(rootPom.deps[i])
         IN /\ t \in CoordsOf(result)
            /\ Parsed(t) =>
                 \A k \in 1..Len(repo[t].deps) :
                   Transitive(repo[t].deps[k])
                     => CoordinateOf(repo[t].deps[k]) \in CoordsOf(result)
    /\ \A c \in CoordsOf(result) :
         \/ \E i \in 1..Len(rootPom.deps) :
              CoordinateOf(rootPom.deps[i]) = c /\ ~rootPom.deps[i].optional
         \/ \E p \in CoordsOf(result) :
              /\ Parsed(p)
              /\ \E k \in 1..Len(repo[p].deps) :
                   CoordinateOf(repo[p].deps[k]) = c /\ Transitive(repo[p].deps[k])

\* the root declares coordinate 1 with scope test, the manifest of 1 declares
\* coordinate 2 with the default scope, and both are in the result
C3_ScopedRootExpanded ==
  /\ rpc = "done"
  /\ Len(rootPom.deps) = 1
  /\ CoordinateOf(rootPom.deps[1]) = CoordOf(1)
  /\ rootPom.deps[1].scope = "test"
  /\ Parsed(CoordOf(1))
  /\ Len(repo[CoordOf(1)].deps) = 1
  /\ CoordinateOf(repo[CoordOf(1)].deps[1]) = CoordOf(2)
  /\ Transitive(repo[CoordOf(1)].deps[1])
  /\ CoordsOf(result) = {CoordOf(1), CoordOf(2)}

(***************************************************************************)
(* Properties of the analyzer.                                             *)
(***************************************************************************)
Steps == 1..Len(call.trace)

Asked == {call.trace[k][2] : k \in {i \in Steps : call.trace[i][1] = "ask"}}

IsFetch(e, what) == e \in {Event("fetch", what), Event("fetch offline", what)}

Fetched(what) == \E k \in Steps : IsFetch(call.trace[k], what)

Returned(how) == call.pc = "idle" /\ outcome.how = how

\* the step is one of the analyzeJar call, not of the tool beside it
CallSteps == call' # call

\* C4, as claimed: with the primary archive local analyzeJar asks nothing
\* and completes as Resolved in primary mode.
C4_LocalMainAsksNothing ==
  call.mainJarExists =>
    /\ Asked = {}
    /\ call.pc = "idle" => outcome = [how |-> "resolved", mode |-> "primary"]

\* C4: with the primary archive local, analyzeJar never shows the menu, never
\* asks to download the primary archive and reads the local primary archive;
\* it asks nothing at all if the sources archive is local too, and asks the
\* limited-analysis question whenever ensureSourcesJar finds the sources
\* archive missing with offline mode off; it ends Resolved in primary mode
\* unless the archive cannot be parsed.
C4_LocalMain ==
  /\ [](call.mainJarExists =>
          /\ Asked \subseteq {"limited", "sources"}
          /\ call.sourcesJarExists => Asked = {}
          /\ ~call.useSourcesJar
          /\ call.pc # "probed" => call.trace[1] = Event("read", "main")
          /\ call.pc = "idle" =>
               outcome \in {[how |-> "resolved", mode |-> "primary"],
                            [how |-> "parse-failed", mode |-> "none"]})
  /\ [][call.mainJarExists /\ AtEnsureSources /\ SourcesWanted /\ CallSteps
          => call'.pc = "limited" /\ "limited" \in Asked']_vars

\* analyzeJar found the primary archive, asked and downloaded the sources
C4_LocalMainAskedAndResolved ==
  /\ call.mainJarExists
  /\ Returned("resolved")
  /\ Asked = {"limited", "sources"}
  /\ Fetched("sources")

C8_EveryFetchConfirmed ==
  \A k \in Steps : \A what \in ArchiveTypes \cup {"javadoc"} :
    IsFetch(call.trace[k], what) =>
      /\ k > 2
      /\ call.trace[k - 1] = Event("answer", "yes")
      /\ call.trace[k - 2] = Event("ask", what)

Declined(k) ==
  /\ k > 1
  /\ call.trace[k] = Event("answer", "no")
  /\ call.trace[k - 1][2] \in ArchiveTypes

\* C9, as claimed: under 'both' a declined sources confirmation leaves the
\* main archive to be confirmed.
C9_DeclineLeavesMain ==
  \A k \in Steps :
    call.type = "both" /\ Declined(k) /\ call.trace[k - 1] = Event("ask", "sources")
      => "main" \in Asked

\* C9: a declined confirmation means the archive is not fetched; declined
\* inside downloadDependency it ends the whole call with the cancellation
\* error, so that under 'both' main is neither asked for nor fetched after
\* sources was declined; declined inside ensureSourcesJar it is swallowed.
C9_DeclineAbortsCall ==
  \A k \in Steps :
    Declined(k) =>
      /\ \A j \in Steps : j > k => ~IsFetch(call.trace[j], call.trace[k - 1][2])
      /\ call.context = "downloadDependency" =>
           /\ k = Len(call.trace)
           /\ Returned("declined")
           /\ call.trace[k - 1] = Event("ask", "sources") =>
                "main" \notin Asked /\ ~Fetched("main")
      /\ call.context = "ensureSourcesJar" => outcome.how # "declined"

C9_SourcesDeclinedUnderBoth ==
  /\ call.type = "both"
  /\ Returned("declined")
  /\ call.trace[Len(call.trace) - 1] = Event("ask", "sources")
  /\ "main" \notin Asked

\* C10: under 'both' the main archive is asked for only after the sources
\* archive was confirmed and fetched, and what is read and parsed after the
\* downloads is the sources archive, in sources mode.
C10_BothSourcesFirst ==
  call.type = "both" =>
    \A k \in Steps :
      /\ call.trace[k] = Event("ask", "main") =>
           /\ k > 3
           /\ \E i \in 3..(k - 1) :
                /\ IsFetch(call.trace[i], "sources")
                /\ call.trace[i - 1] = Event("answer", "yes")
                /\ call.trace[i - 2] = Event("ask", "sources")
           /\ \A i \in 1..k : call.trace[i] # Event("failed", "sources")
      /\ IsFetch(call.trace[k], "main") =>
           \E i \in 1..(k - 1) : call.trace[i] = Event("ask", "main")
      /\ call.trace[k][1] = "read" =>
           /\ call.trace[k] = Event("read", "sources")
           /\ \E i \in 1..(k - 1) : IsFetch(call.trace[i], "main")
           /\ call.useSourcesJar
      /\ call.trace[k][1] = "parse" => call.trace[k] = Event("parse", "sources")

C10_BothResolved ==
  /\ call.type = "both"
  /\ Returned("resolved")
  /\ outcome.mode = "sources"
  /\ Fetched("main")
  /\ Fetched("sources")

\* the guard of analyzeJar's first step, cached or not
CanAnalyze(d) == d \in Artifacts /\ call.pc = "idle"

\* the operator's answer at the menu is what this step of the call records
Answers(option) == AtMenu /\ call'.trace = Append(call.trace, Event("answer", option))

\* C11: the menu's skip choice ends analyzeJar with the skip error, after the
\* menu question only (no confirmation, no fetch); the step changes neither
\* offlineMode nor the local repository nor the jar cache, and analyzeJar can
\* be called for every coordinate afterwards.
C11_SkipIsLocal ==
  /\ [][Answers("skip") =>
          /\ Returned("skipped")'
          /\ UNCHANGED <<offlineMode, files, jarCache>>]_vars
  /\ [](Returned("skipped") =>
          /\ call.trace = <<Event("ask", "menu"), Event("answer", "skip")>>
          /\ \A d \in Artifacts : CanAnalyze(d))

C11_Skipped ==
  /\ Returned("skipped")
  /\ ~offlineMode
  /\ files[call.dependency] = NoFiles

\* C12: the menu is shown only to a call that found neither archive; a call
\* that found the sources archive and not the primary one reads the local
\* sources archive, asks nothing, fetches neither archive and ends Resolved
\* in sources mode (unless the archive cannot be parsed).
C12_MenuOnlyWhenNeitherLocal ==
  /\ [][call.pc = "idle" /\ call'.pc = "probed" =>
          /\ call'.mainJarExists = files[call'.dependency].main
          /\ call'.sourcesJarExists = files[call'.dependency].sources]_vars
  /\ []("menu" \in Asked => ~call.mainJarExists /\ ~call.sourcesJarExists)
  /\ [](~call.mainJarExists /\ call.sourcesJarExists /\ call.pc # "probed" =>
          /\ Asked = {}
          /\ ~Fetched("main") /\ ~Fetched("sources")
          /\ call.trace[1] = Event("read", "sources")
          /\ call.useSourcesJar
          /\ call.pc = "idle" =>
               outcome \in {[how |-> "resolved", mode |-> "sources"],
                            [how |-> "parse-failed", mode |-> "none"]})

C12_LocalSourcesResolved ==
  /\ ~call.mainJarExists
  /\ call.sourcesJarExists
  /\ ~files[call.dependency].main
  /\ Returned("resolved")
  /\ outcome.mode = "sources"

InTrace(e) == \E k \in Steps : call.trace[k] = e

\* analyzeJar holds the primary archive's bytes and is between the read and
\* parseJarFile: in ensureSourcesJar or in ensureJavadocJar
Enriching ==
  /\ InTrace(Event("read", "main"))
  /\ \/ call.pc \in {"ensureSources", "limited", "ensureJavadoc", "fetchingJavadoc"}
     \/ call.pc \in {"confirm", "fetching"} /\ call.context = "ensureSourcesJar"

\* C13: once analyzeJar has read the primary archive, nothing that happens in
\* ensureSourcesJar or ensureJavadocJar (a no, a declined confirmation, a
\* failed fetch, a failed write) ends the call: it goes on to parseJarFile in
\* primary mode, and it ends Resolved in primary mode unless parseJarFile
\* itself throws on the primary archive.
C13_EnrichmentFailuresSwallowed ==
  /\ [][Enriching /\ CallSteps =>
          /\ call'.pc = "parse" \/ Enriching'
          /\ outcome' = outcome
          /\ ~call'.useSourcesJar]_vars
  /\ [][call.pc = "parse" /\ ~call.useSourcesJar /\ CallSteps =>
          \/ Returned("resolved")' /\ outcome'.mode = "primary"
                /\ jarCache'[call.dependency] = [present |-> TRUE, mode |-> "primary"]
          \/ Returned("parse-failed")']_vars
  /\ [](InTrace(Event("read", "main")) /\ call.pc = "idle" =>
          outcome \in {[how |-> "resolved", mode |-> "primary"],
                       [how |-> "parse-failed", mode |-> "none"]})

\* resolved from the primary archive although the sources download and the
\* javadoc download both failed
C13_ResolvedDespiteFailures ==
  /\ Returned("resolved")
  /\ outcome.mode = "primary"
  /\ InTrace(Event("failed", "sources"))
  /\ InTrace(Event("failed", "javadoc"))

\* the call awaits the response to its fetch of the archive `what`
Downloading(what) ==
  \/ call.pc = "fetching" /\ Head(call.queue) = what
  \/ call.pc = "fetchingJavadoc" /\ what = "javadoc"

\* ... and this step is the response arriving, with an ok status
DownloadSucceeds(what) ==
  Downloading(what) /\ CallSteps /\ ~InTrace(Event("failed", what))'

\* this step issues a fetch of the archive `what`
Issues(what) == ~Fetched(what) /\ Fetched(what)'

Archives == ArchiveTypes \cup {"javadoc"}

Fetches(what) == Cardinality({k \in Steps : IsFetch(call.trace[k], what)})

Writes(what) == Cardinality({k \in Steps : call.trace[k] = Event("write", what)})

\* the operator chose 'download sources' at the menu and said yes
SourcesChosenAndConfirmed ==
  /\ Len(call.trace) >= 4
  /\ SubSeq(call.trace, 1, 4) =
       <<Event("ask", "menu"), Event("answer", "sources"),
         Event("ask", "sources"), Event("answer", "yes")>>

\* C15: neither archive local, offline mode off, 'download sources' chosen
\* and confirmed: the call fetches the sources archive exactly once and the
\* primary archive never, calls the sources archive once at the
\* coordinate's sources path, reads it back and goes on in sources mode to
\* parseJarFile.
C15_SourcesScenario ==
  /\ [](SourcesChosenAndConfirmed =>
          /\ ~call.mainJarExists /\ ~call.sourcesJarExists
          /\ Fetches("sources") = 1
          /\ Fetches("main") = 0
          /\ Writes("sources") <= 1 /\ Writes("main") = 0
          /\ Asked = {"menu", "sources"}
          /\ \A k \in Steps :
               /\ call.trace[k][1] = "read" =>
                    /\ call.trace[k] = Event("read", "sources")
                    /\ call.trace[k - 1] = Event("write", "sources")
               /\ call.trace[k][1] = "parse" => call.trace[k] = Event("parse", "sources")
          /\ Returned("resolved") => outcome.mode = "sources" /\ Writes("sources") = 1)
  /\ [][SourcesChosenAndConfirmed /\ call.pc = "fetching" /\ CallSteps
          /\ InTrace(Event("write", "sources"))' =>
            /\ files' = Saved(files, call.dependency, "sources")
            /\ call'.useSourcesJar
            /\ call'.pc = "ensureJavadoc"]_vars

C15_SourcesDownloadedAndResolved ==
  /\ SourcesChosenAndConfirmed
  /\ Returned("resolved")
  /\ outcome.mode = "sources"
  /\ Fetches("sources") = 1
  /\ Writes("sources") = 1

\* the askQuestion calls whose promise is not resolved yet
Outstanding ==
  (IF call.pc \in {"menu", "confirm", "limited"} THEN {"first"} ELSE {})
    \cup (IF second.pc = "menu" THEN {"second"} ELSE {})

\* C16: at most one question to the operator is outstanding at any time.
C16_OneQuestionAtATime == Cardinality(Outstanding) <= 1

\* C17: no prompt or status line of an acquisition is written to stdout.
C17_NothingOnStdout == \A line \in call.lines : line[1] # "stdout"

\* the call that begins now returns at once, with the list the call before
\* it returned: no manifest is looked up, nothing is fetched
AnswersFromCache ==
  /\ rpc' = "done"
  /\ result' = result
  /\ netLog' = netLog
  /\ expanded' = [c \in Coords |-> 0]
  /\ UNCHANGED <<rootPom, repo>>

\* C18: a resolveDependencyTree call after one that returned returns the
\* identical list without reading a manifest and without a fetch.
C18_SecondCallFromCache == [][rpc = "done" => AnswersFromCache]_vars

\* C18, amended: it does when the cache store is enabled.
C18_SecondCallFromEnabledCache ==
  [][rpc = "done" /\ cacheEnabled => AnswersFromCache]_vars

\* a second call has returned a list whose making took a fetch
C18_AnsweredFromCache ==
  /\ rpc = "done"
  /\ cacheEnabled
  /\ result # <<>>
  /\ netLog # {}
  /\ \A c \in Coords : expanded[c] = 0

\* the subtree of c was abandoned: its manifest could not be had or parsed
Abandoned(c) == repo[c].known /\ ~Parsed(c)

\* what a loop over deps has to leave in the list: the declarations it
\* passes to resolveDependency that are not optional
Kept(deps, isRoot) ==
  {CoordinateOf(deps[i]) : i \in {k \in 1..Len(deps) :
      /\ ~deps[k].optional
      /\ isRoot \/ deps[k].scope \notin {"provided", "test"}}}

\* C19: a failure in one dependency's subtree does not fail the call and
\* does not cost a sibling: resolveDependencyTree only fails on the root
\* manifest, before any dependency is looked up, and the returned list holds
\* every non-optional declaration of the root and of every parsed manifest
\* of a listed dependency, whatever happened to the declarations before it.
C19_SiblingsSurviveFailures ==
  /\ rpc = "failed" =>
       /\ rootPom.known /\ ~rootPom.wellFormed
       /\ \A c \in Coords : expanded[c] = 0
  /\ rpc = "done" =>
       /\ Kept(rootPom.deps, TRUE) \subseteq CoordsOf(result)
       /\ \A c \in CoordsOf(result) :
            Parsed(c) => Kept(repo[c].deps, FALSE) \subseteq CoordsOf(result)

\* the first declaration of the root was abandoned, and the one after it is
\* in the list, right behind it
C19_SiblingAfterFailure ==
  /\ rpc = "done"
  /\ Len(rootPom.deps) = 2
  /\ Len(result) >= 2
  /\ result[1] = rootPom.deps[1]
  /\ Abandoned(CoordinateOf(result[1]))
  /\ result[2] = rootPom.deps[2]

\* The pre-order traversal from the declarations deps, after the list acc:
\* declarations in declared order, a manifest's own declarations right
\* behind it, the first occurrence of a coordinate kept.
RECURSIVE PreOrder(_, _, _)
PreOrder(deps, isRoot, acc) ==
  IF deps = <<>> THEN acc
  ELSE LET d == Head(deps)
           c == CoordinateOf(d)
           passed == \/ ~isRoot /\ d.scope \in {"provided", "test"}
                     \/ d.optional
                     \/ c \in CoordsOf(acc)
           here == Append(acc, d)
           below == IF Parsed(c) THEN PreOrder(repo[c].deps, FALSE, here)
                    ELSE here
       IN PreOrder(Tail(deps), isRoot, IF passed THEN acc ELSE below)

IsPrefix(s, t) == Len(s) <= Len(t) /\ SubSeq(t, 1, Len(s)) = s

\* C20: the returned list is the pre-order (depth-first, declaration order)
\* traversal from the root's declarations, and the list under construction
\* only ever grows at its end.
C20_DepthFirstDeclarationOrder ==
  /\ [](rpc = "done" => result = PreOrder(rootPom.deps, TRUE, <<>>))
  /\ [][rpc' = "running" /\ rpc = "running" => IsPrefix(resolvedDeps, resolvedDeps')]_vars

\* root -> 1, 2 and 1 -> 3 is listed 1, 3, 2
C20_ChildBeforeSibling ==
  /\ rpc = "done"
  /\ NumCoords >= 3
  /\ Len(rootPom.deps) = 2
  /\ Len(result) = 3
  /\ CoordinateOf(result[1]) = CoordinateOf(rootPom.deps[1])
  /\ CoordinateOf(result[3]) = CoordinateOf(rootPom.deps[2])
  /\ CoordinateOf(result[2]) \in CoordsOf(repo[CoordinateOf(result[1])].deps)

(***************************************************************************)
(* Properties of analyze_project.                                          *)
(***************************************************************************)
Scoped(d) == d.scope \in {"test", "provided"}

\* C21: analyze_project never calls analyzeJar for a member of the list whose
\* scope is test or provided, although the list holds such members: every
\* call made, and the call in flight, is for a member of another scope.
C21_ScopedNeverAcquired ==
  /\ \A k \in 1..Len(batch.invoked) : ~Scoped(batch.invoked[k])
  /\ call.pc # "idle" =>
       /\ batch.pc = "awaiting"
       /\ call.dependency = CoordinateOf(Dependency)
       /\ ~Scoped(Dependency)

\* a list with a test member before a compile member has been gone through
C21_ScopedPassedOver ==
  /\ batch.pc = "done"
  /\ Len(batch.dependencies) = 2
  /\ batch.dependencies[1].scope = "test"
  /\ batch.invoked = <<batch.dependencies[2]>>
  /\ batch.processedCount = 2

\* The flush timer is pending after the step, and it is the only one.
Rescheduled == persistTimeoutId' /\ timers' = 1

\* C22 as stated: every one of the five write accessors stores its entry in
\* memory and reschedules the debounced flush timer.
C22_EveryAccessorReschedules ==
  [][/\ CachePomEntry => pomCache'.present /\ Rescheduled
     /\ CacheDependencyTreeEntry => treeCache'.present /\ Rescheduled
     /\ CacheJarAnalysis => jarCache'[CoordOf(1)].present /\ Rescheduled
     /\ CacheSourceCode => sourceCodeCache'.present /\ Rescheduled
     /\ CacheJavadoc => javadocCache'.present /\ Rescheduled]_vars

\* C22 amended: on an enabled store every write accessor stores its entry in
\* memory; cachePom, cacheDependencyTree and cacheJarAnalysis reschedule the
\* flush timer, cacheSourceCode and cacheJavadoc leave the timer as it is.
\* On a disabled store a write accessor changes neither memory nor timer.
C22_PersistedStoresReschedule ==
  [][/\ cacheEnabled =>
          /\ CachePomEntry => pomCache'.present /\ Rescheduled
          /\ CacheDependencyTreeEntry => treeCache'.present /\ Rescheduled
          /\ CacheJarAnalysis => jarCache'[CoordOf(1)].present /\ Rescheduled
          /\ CacheSourceCode => sourceCodeCache'.present /\ UNCHANGED timer
          /\ CacheJavadoc => javadocCache'.present /\ UNCHANGED timer
     /\ ~cacheEnabled =>
          ((\/ CachePomEntry
            \/ CacheDependencyTreeEntry
            \/ CacheJarAnalysis
            \/ CacheSourceCode
            \/ CacheJavadoc) => UNCHANGED <<memory, timer>>)]_vars

\* A source text was stored by the first call made on an enabled store and no
\* flush timer is pending.
C22_StoredWithoutTimer ==
  /\ cacheEnabled
  /\ calls = 1
  /\ sourceCodeCache.present
  /\ ~persistTimeoutId
  /\ timers = 0

\* Every entry the manifest, resolved-set and archive stores hold in memory
\* is in the snapshot files, with its value.
OnDisk ==
  /\ pomCache.present => disk.pom = Good(pomCache)
  /\ treeCache.present => disk.tree = Good(treeCache)
  /\ \A d \in Artifacts :
       jarCache[d].present =>
         /\ disk.jar[d] = Good(jarCache[d])
         /\ disk.index.state = "good"
         /\ d \in disk.index.content

\* The source-text and documentation stores have no snapshot file.
AllOnDisk == OnDisk /\ ~sourceCodeCache.present /\ ~javadocCache.present

\* Nothing of the cache service is pending or under way.
Quiet ==
  /\ proc = "up"
  /\ boot = "done"
  /\ timers = 0
  /\ clearing = "idle"
  /\ \A f \in Flushers : flushes[f].pc = "idle"

NothingStored ==
  /\ NothingToPersist
  /\ ~sourceCodeCache.present
  /\ ~javadocCache.present

FlushCompletes ==
  \E f \in Flushers :
    /\ PersistIndex(f)
    /\ disk.dir
    /\ flushes[f].alone
    /\ calls = flushes[f].since

C27_DamagedSnapshotTolerated ==
  [][/\ (LoadPom /\ disk.pom.state # "good") =>
          (pomCache' = pomCache /\ boot' = "tree" /\ cacheEnabled' = cacheEnabled)
     /\ (LoadTree /\ disk.tree.state # "good") =>
          (treeCache' = treeCache /\ boot' = "jar" /\ cacheEnabled' = cacheEnabled)
     /\ LoadJar =>
          /\ boot' = "done"
          /\ cacheEnabled' = cacheEnabled
          /\ disk.index.state # "good" => jarCache' = jarCache
          /\ \A d \in Artifacts :
               disk.jar[d].state # "good" => jarCache'[d] = jarCache[d]
     /\ (cacheEnabled /\ ~cacheEnabled') => InitCacheFails]_vars

\* A service was started on a snapshot whose pom-cache.json is corrupt: its
\* load has passed that file and dependency-tree-cache.json, the manifest
\* store is empty, the resolved-set store holds the entry of the snapshot and
\* the cache is enabled.  (A write and a signal were the only calls and no
\* flush is under way: the entry was written to the file by the run before
\* and loaded by this one.)
C27_StartedOnCorruptFile ==
  /\ proc = "up"
  /\ boot = "jar"
  /\ cacheEnabled
  /\ calls = 2
  /\ disk.pom.state = "corrupt"
  /\ ~pomCache.present
  /\ treeCache.present
  /\ disk.tree = Good(treeCache)
  /\ \A f \in Flushers : flushes[f].pc = "idle"

\* C28: an analyzeJar call for a coordinate whose analysis the archive store
\* holds returns the stored list at once, whatever the offline flag: it
\* probes no file, asks nothing, fetches nothing and parses nothing (its
\* trace stays empty, the local repository and the fetch log are untouched).
C28_CachedAnswersAtOnce ==
  [][(/\ call.pc = "idle"
      /\ call' # call
      /\ jarCache[call'.dependency].present) =>
       /\ call'.pc = "idle"
       /\ call'.trace = <<>>
       /\ outcome' = [how |-> "cached", mode |-> jarCache[call'.dependency].mode]
       /\ UNCHANGED <<files, netLog, offlineMode, jarCache>>]_vars

\* In offline mode a call was answered from the archive store, with no step
\* taken.
C28_CachedWhileOffline ==
  /\ offlineMode
  /\ Returned("cached")
  /\ call.trace = <<>>
  /\ <<"stdout", "Using cached JAR analysis">> \in call.lines

\* C29: the cache is a pure memoization: the documentation a class of
\* coordinate d was given, from the documentation store or not, is the
\* documentation in d's own javadoc archive.
C29_OwnDocumentation ==
  \A d \in Artifacts :
    enriched[d].done => enriched[d].javadoc = Description(docs[d])

\* Two characters are the same letter, whatever their case.
SameLetter(x, y) ==
  \/ x = y
  \/ {x, y} = {"a", "A"}
  \/ {x, y} = {"b", "B"}

\* s contains q case-insensitively: q lies in s at some offset, letter by
\* letter.
ContainsIgnoringCase(s, q) ==
  \E i \in 0..(Len(s) - Len(q)) :
    \A j \in 1..Len(q) : SameLetter(s[i + j], q[j])

\* The class's qualified name or its documentation contains q.
Matching(javaClass, q) ==
  \/ ContainsIgnoringCase(javaClass.packageName \o <<".">> \o javaClass.name, q)
  \/ /\ javaClass.javadoc.present
     /\ ContainsIgnoringCase(javaClass.javadoc.value, q)

\* C30: searchClasses(q) returns exactly the indexed classes whose qualified
\* name or documentation contains q case-insensitively, each at most once.
C30_ExactlyTheMatchingClasses ==
  results.done =>
    /\ {results.classes[i] : i \in 1..Len(results.classes)}
         = {classIndex[n][2] : n \in {m \in 1..Len(classIndex) :
                                        Matching(classIndex[m][2], results.query)}}
    /\ \A i, j \in 1..Len(results.classes) :
         results.classes[i] = results.classes[j] => i = j

\* A search returned the two indexed classes: one matches the query by its
\* documentation only, and in another case than the query's.
C30_FoundByDocumentation ==
  /\ results.done
  /\ Len(classIndex) = 2
  /\ Len(results.classes) = 2
  /\ Len(results.query) = 1
  /\ \E i \in 1..2 :
       /\ ~ContainsIgnoringCase(FullClassName(results.classes[i]), results.query)
       /\ results.classes[i].javadoc.present
       /\ ~Includes(results.classes[i].javadoc.value, results.query)

\* The entry of the method index a result was made of.
EntryOf(r) ==
  MapGet(methodIndex, r.packageName \o <<".">> \o r.className \o <<"#">> \o r.methodName)

MatchesByName(r) == ContainsIgnoringCase(r.methodName, methodResults.query)

\* The method of r matches by its documentation.
MatchesByJavadoc(r) ==
  /\ EntryOf(r).method.javadoc.present
  /\ ContainsIgnoringCase(EntryOf(r).method.javadoc.value, methodResults.query)

\* Every indexed method whose name contains the query has a result, no
\* result has relevance 0, and the relevances do not increase.
Ranked ==
  /\ \A n \in 1..Len(methodIndex) :
       ContainsIgnoringCase(methodIndex[n][2].method.name, methodResults.query)
         => \E i \in 1..Len(methodResults.methods) :
              /\ EntryOf(methodResults.methods[i]) = methodIndex[n][2]
              /\ ~IsPrivate(methodIndex[n][2].method)
  /\ \A i \in 1..Len(methodResults.methods) : methodResults.methods[i].relevance > 0
  /\ \A i, j \in 1..Len(methodResults.methods) :
       i < j => methodResults.methods[i].relevance >= methodResults.methods[j].relevance

\* C31 as stated: searchMethods(q) returns every indexed non-private method
\* whose name contains q, none with relevance 0, by non-increasing relevance,
\* and a method matching by name is never ranked below one that matches only
\* by return type or parameter.
C31_NameMatchesFirst ==
  methodResults.done =>
    /\ Ranked
    /\ \A i, j \in 1..Len(methodResults.methods) :
         (/\ i < j
          /\ MatchesByName(methodResults.methods[j])
          /\ ~MatchesByName(methodResults.methods[i]))
           => MatchesByJavadoc(methodResults.methods[i])

\* C31, amended: the same, but a method matching by name is never ranked
\* below a method whose relevance is less than 3 (6 halves), which one that
\* matches by its return type and by several parameters can exceed.
C31_RankedByRelevance ==
  methodResults.done =>
    /\ Ranked
    /\ \A i, j \in 1..Len(methodResults.methods) :
         (i < j /\ MatchesByName(methodResults.methods[j]))
           => methodResults.methods[i].relevance >= 6

\* A search returned a method that matches by its return type and its
\* parameters only above one that matches by its name.
C31_OutrankedByParameters ==
  /\ methodResults.done
  /\ \E i, j \in 1..Len(methodResults.methods) :
       /\ i < j
       /\ MatchesByName(methodResults.methods[j])
       /\ ~MatchesByName(methodResults.methods[i])
       /\ ~MatchesByJavadoc(methodResults.methods[i])
       /\ methodResults.methods[i].relevance > methodResults.methods[j].relevance

\* The methods of the class that is indexed under the name now.
MethodsOf(fullClassName) ==
  IF MapHas(classIndex, fullClassName)
  THEN {MapGet(classIndex, fullClassName).methods[i] :
          i \in 1..Len(MapGet(classIndex, fullClassName).methods)}
  ELSE {}

\* C40: every entry C#m of the method index holds a non-private method of
\* the class that is indexed under C now, so that every result of
\* searchMethods is found again among the methods of that class.
C40_MethodIndexWithinClassIndex ==
  /\ \A n \in 1..Len(methodIndex) :
       /\ ~IsPrivate(methodIndex[n][2].method)
       /\ methodIndex[n][2].method \in MethodsOf(methodIndex[n][2].className)
  /\ methodResults.done =>
       \A i \in 1..Len(methodResults.methods) :
         EntryOf(methodResults.methods[i]).method
           \in MethodsOf(methodResults.methods[i].packageName \o <<".">>
                         \o methodResults.methods[i].className)

NotScoped(d) == ~Scoped(d)

\* The members of the list, up to the n-th, that analyze_project acquires.
Attempted(n) == SelectSeq(SubSeq(batch.dependencies, 1, n), NotScoped)

\* C32: analyze_project calls analyzeJar for the members of the list whose
\* scope is neither test nor provided one at a time and in the order of the
\* list, whatever the outcome of the calls before: the calls made when the
\* loop stands at a member are those for the members before it, once each,
\* and no call is under way except the awaited one.
C32_OneAtATimeInOrder ==
  /\ batch.pc = "loop" => batch.invoked = Attempted(batch.i - 1)
  /\ batch.pc = "awaiting" =>
       /\ NotScoped(Dependency)
       /\ batch.invoked = Attempted(batch.i)
  /\ batch.pc = "done" => batch.invoked = Attempted(Len(batch.dependencies))
  /\ batch.pc # "awaiting" => call.pc = "idle"
  /\ batch.processedCount = (IF batch.pc = "awaiting" THEN batch.i - 1
                             ELSE IF batch.pc = "idle" THEN 0
                             ELSE Min(batch.i - 1, Len(batch.dependencies)))

\* The acquisition of the first member failed and the second member was
\* acquired and indexed all the same.
C32_AttemptedAfterFailure ==
  /\ batch.pc = "done"
  /\ Len(batch.dependencies) = 2
  /\ batch.invoked = batch.dependencies
  /\ batch.indexed = {CoordinateOf(batch.dependencies[2])}
  /\ outcome.how = "resolved"

\* C33: a declaration marked optional is never appended to the list and
\* never expanded, and passing over it leaves processedDeps as it is; a
\* declaration that is not optional and whose key is not in processedDeps
\* is appended, marked and expanded, whether or not an optional declaration
\* of the same coordinate was passed over before.
C33_OptionalPassedOverUnmarked ==
  [][/\ (Called /\ Current.optional) =>
          UNCHANGED <<resolvedDeps, processedDeps, expanded, netLog>>
     /\ (Called /\ ~Current.optional /\ DepKey(Current) \notin processedDeps) =>
          /\ resolvedDeps' = Append(resolvedDeps, Current)
          /\ processedDeps' = processedDeps \cup {DepKey(Current)}
          /\ expanded' = [expanded EXCEPT ![CoordinateOf(Current)] = @ + 1]
     /\ \A k \in 1..Len(resolvedDeps') : ~resolvedDeps'[k].optional
     /\ \A k \in 1..Len(result') : ~result'[k].optional
     /\ processedDeps' = {DepKey(resolvedDeps'[k]) : k \in 1..Len(resolvedDeps')}]_vars

\* The project declares a coordinate as optional and then once more, not
\* optional: the list returned holds the second declaration, expanded once.
C33_ResolvedAfterOptional ==
  /\ rpc = "done"
  /\ Len(rootPom.deps) = 2
  /\ rootPom.deps[1].optional
  /\ ~rootPom.deps[2].optional
  /\ CoordinateOf(rootPom.deps[1]) = CoordinateOf(rootPom.deps[2])
  /\ result = <<rootPom.deps[2]>>
  /\ expanded[CoordinateOf(rootPom.deps[2])] = 1

\* The analyzeJar call waits for the operator's answer at the menu or at a
\* download confirmation, it has fetched nothing, and the set_offline_mode
\* tool has enabled offline mode since the call tested the flag.
SuspendedWhenSetOffline ==
  /\ AtMenu \/ AtConfirm("downloadDependency")
  /\ \A what \in Archives : ~Fetched(what)
  /\ offlineMode
  /\ offlineBy = "tool"

\* C34: once set_offline_mode(true) was processed while an analyzeJar call
\* waited for the operator's menu answer or confirmation, that call issues
\* no fetch.
C34_NoFetchOnceSetOffline ==
  [][SuspendedWhenSetOffline => \A what \in Archives : ~Issues(what)]_vars

\* C35: the archive store loaded after a flush returns, for every key that
\* was in the store when it was flushed, the class list cached under it.
C35_JarStoreRoundTrip ==
  snapshot.pc = "loaded" =>
    \A n \in 1..Len(snapshot.jarCache) :
      /\ MapHas(snapshot.loaded, snapshot.jarCache[n][1])
      /\ MapGet(snapshot.loaded, snapshot.jarCache[n][1]) = snapshot.jarCache[n][2]

\* The manifest of c could not be obtained, or could not be parsed.
Unreadable(c) ==
  repo[c].known /\ (repo[c].where \in {"notok", "neterr"} \/ ~repo[c].wellFormed)

\* C36: a dependency that is not optional and whose manifest could not be
\* obtained or parsed is a member of the list all the same, and the
\* declarations after it are resolved as they would be: of the project's
\* own declarations every one that is not optional is in the list returned.
C36_UnreadableStillResolved ==
  /\ \A c \in Coords :
       (expanded[c] > 0 /\ Unreadable(c)) =>
         /\ c \in CoordsOf(resolvedDeps)
         /\ rpc = "done" => c \in CoordsOf(result)
  /\ rpc = "done" =>
       \A k \in 1..Len(rootPom.deps) :
         ~rootPom.deps[k].optional => CoordinateOf(rootPom.deps[k]) \in CoordsOf(result)

\* The manifest of the project's first dependency could not be read: the
\* list returned holds it, and the second dependency after it.
C36_ListedWithoutManifest ==
  /\ rpc = "done"
  /\ Len(rootPom.deps) = 2
  /\ result = rootPom.deps
  /\ Unreadable(CoordinateOf(result[1]))
  /\ expanded[CoordinateOf(result[1])] = 1
  /\ expanded[CoordinateOf(result[2])] = 1

\* The analyzeJar call ended, and not with a class list.
Failed == call.pc = "idle" /\ outcome.how \notin {"none", "cached", "resolved"}

\* C37: an analyzeJar call that fails leaves the archive store as it is.
\* Only the step on which a call returns the classes it extracted changes
\* the store; after a failed call the store has no entry for the
\* coordinate, and the next call for it probes the local repository again.
C37_FailedCallCachesNothing ==
  [][/\ (CallSteps /\ ~Returned("resolved")') => jarCache' = jarCache
     /\ Failed' => ~CachedClasses(call.dependency)'
     /\ (Failed /\ CallSteps /\ call.dependency' = call.dependency) =>
          call.pc' = "probed"]_vars

\* A call failed at its download after an earlier call had cached the
\* classes of another coordinate: the store holds that entry and no other.
C37_FailedBesideCachedEntry ==
  /\ Failed
  /\ outcome.how = "fetch-failed"
  /\ ~CachedClasses(call.dependency)
  /\ \E d \in Artifacts \ {call.dependency} : CachedClasses(d)

\* A step of the startup load: initCache or loadPersistedCache goes on.
LoadSteps == proc = "up" /\ proc' = "up" /\ boot' # boot

\* C38: an entry written through cachePom, cacheDependencyTree or
\* cacheJarAnalysis after the CacheService was constructed is not replaced
\* by the startup load: no step of the load changes an entry a store holds.
C38_WrittenEntryOutlivesLoad ==
  [][LoadSteps =>
       /\ pomCache.present => pomCache' = pomCache
       /\ treeCache.present => treeCache' = treeCache
       /\ \A d \in Artifacts : jarCache[d].present => jarCache'[d] = jarCache[d]]_vars

\* A snapshot file holds an entry.
EntriesOnDisk ==
  \/ disk.pom.state = "good" /\ disk.pom.content.present
  \/ disk.tree.state = "good" /\ disk.tree.content.present
  \/ \E d \in Artifacts : disk.jar[d].state = "good" /\ disk.jar[d].content.present

\* C39: once clearCache has completed, durable storage never again holds an
\* entry cached before the clear.  From the state a completed clearCache
\* leaves (no clearCache under way, the stores empty, the directory there
\* and empty) no step puts an entry into a snapshot file: with the stores
\* empty, such an entry could only be one cached before the clear.
C39_ClearedEntriesStayGone ==
  [][(proc = "up" /\ clearing = "idle" /\ NothingStored /\ disk = EmptyDirectory)
       => ~EntriesOnDisk']_vars

\* C6: no remote fetch is issued while offline mode is enabled.
C6_NoFetchWhileOffline == \A f \in netLog : ~f.offline

====
